---- MODULE Spec2Model ----
(***************************************************************************)
(* Verification model of the course repository's programs.                 *)
(*   - scheduler.cpp   : weekly shift scheduler (schedule_employees)       *)
(*   - Familytree.pl   : kinship rules over the parent/2 fact base, and    *)
(*                       stats.ml, the functional statistics calculator    *)
(*   - unnamed/part_000: the array-based statistics calculator (C)         *)
(*   - ride_share.cpp  : rides, drivers and riders                         *)
(*   - README.md       : the expense tracker with its background saves     *)
(* Strings on which the code works character by character (names, shift    *)
(* labels) are sequences of one-character strings; day names, which the    *)
(* code only compares for equality, are plain strings.                     *)
(***************************************************************************)
EXTENDS Integers, Sequences, FiniteSets, TLC

VARIABLES
    in_employees,         \* argument `employees` of schedule_employees
    raw_preferences,      \* argument `raw_preferences`
    cfg,                  \* argument `cfg`
    pc,                   \* position of the call
    run,                  \* 1 = first call, 2 = the same call made again
    prev,                 \* what the first call returned or threw
    employees,            \* cleaned employee list
    prefs,                \* normalized preferences
    sched,                \* day -> shift -> list of names
    assigned_on_day,      \* day -> set of names
    days_worked,          \* name -> count
    warnings,             \* list of warning records
    carry_over_next_day,  \* day -> list of names
    order,                \* candidate order of the current day
    di,                   \* index of the current day (1-based)
    rank,                 \* preference rank of the greedy pass
    idx,                  \* position in `order`
    bs,                   \* index of the shift in the backfill pass
    rng,                  \* state of the seeded generator
    err,                  \* the error thrown, if any
    pops,                 \* number of pop_back calls of the enforcement pass
    kin_pc,               \* position of the kinship query
    kin_query,            \* the goal put to the kinship rules
    kin_answers,          \* its solutions, in the order they are found
    kin_stack,            \* the calls of the recursive rule still to be run
    stat_argv,            \* command line of the statistics calculators
    ml_result,            \* how the run of stats.ml ended
    c_result,             \* how the run of the C calculator ended
    ride_objects,         \* ride id -> the Ride object constructed
    assignedRides,        \* driver -> list of references to rides
    requestedRides,       \* rider -> list of references to rides
    ride_calls,           \* number of addRide and requestRide calls made
    ride_log,             \* the addRide and requestRide calls made, in order
    ride_out,             \* what getDriverInfo or viewRides printed last
    exp_pc,               \* expense tracker: running, exiting, exited
    ledger,               \* the in-memory ledger
    mailbox,              \* the snapshot waiting to be saved
    writing,              \* the snapshot the persistence task is writing
    storage,              \* the ledger held by the file
    exp_err               \* the error reported last

schedVars == <<in_employees, raw_preferences, cfg, pc, run, prev, employees,
               prefs, sched, assigned_on_day, days_worked, warnings,
               carry_over_next_day, order, di, rank, idx, bs, rng, err, pops>>

kinVars == <<kin_pc, kin_query, kin_answers, kin_stack>>

statVars == <<stat_argv, ml_result, c_result>>

rideVars == <<ride_objects, assignedRides, requestedRides, ride_calls,
              ride_log, ride_out>>

expVars == <<exp_pc, ledger, mailbox, writing, storage, exp_err>>

(* the variables of the programs other than the one named *)
nonSchedVars == <<kinVars, statVars, rideVars, expVars>>

nonKinVars == <<schedVars, statVars, rideVars, expVars>>

nonStatVars == <<schedVars, kinVars, rideVars, expVars>>

nonRideVars == <<schedVars, kinVars, statVars, expVars>>

nonExpVars == <<schedVars, kinVars, statVars, rideVars>>

vars == <<schedVars, kinVars, statVars, rideVars, expVars>>

-----------------------------------------------------------------------------
(* Constants of scheduler.cpp *)

DAYS == <<"Mon", "Tue", "Wed", "Thu", "Fri", "Sat", "Sun">>

Morning == <<"m","o","r","n","i","n","g">>

Afternoon == <<"a","f","t","e","r","n","o","o","n">>

Evening == <<"e","v","e","n","i","n","g">>

SHIFTS == <<Morning, Afternoon, Evening>>

SHIFT_SET == {Morning, Afternoon, Evening}

DaySet == {DAYS[i] : i \in 1..Len(DAYS)}

Range(s) == {s[i] : i \in 1..Len(s)}

-----------------------------------------------------------------------------
(* String helpers *)

isspace(c) == c \in {" ", "\t", "\n", "\r", "\f"}

UpperCase == <<"A","B","C","D","E","F","G","H","I","J","K","L","M",
               "N","O","P","Q","R","S","T","U","V","W","X","Y","Z">>

LowerCase == <<"a","b","c","d","e","f","g","h","i","j","k","l","m",
               "n","o","p","q","r","s","t","u","v","w","x","y","z">>

tolower(c) ==
    IF \E i \in 1..Len(UpperCase) : UpperCase[i] = c
    THEN LowerCase[CHOOSE i \in 1..Len(UpperCase) : UpperCase[i] = c]
    ELSE c

RECURSIVE ltrim(_)
ltrim(s) ==
    IF s # <<>> /\ isspace(Head(s)) THEN ltrim(Tail(s)) ELSE s

RECURSIVE rtrim(_)
rtrim(s) ==
    IF s = <<>> THEN s
    ELSE IF isspace(s[Len(s)]) THEN rtrim(SubSeq(s, 1, Len(s) - 1)) ELSE s

trim(s) == rtrim(ltrim(s))

to_lower(s) == [i \in 1..Len(s) |-> tolower(s[i])]

-----------------------------------------------------------------------------
(* Input normalization *)

RECURSIVE unique_cleaned_from(_, _, _)
unique_cleaned_from(names, out, seen) ==
    IF names = <<>> THEN out
    ELSE LET n == trim(Head(names)) IN
         IF n = <<>> THEN unique_cleaned_from(Tail(names), out, seen)
         ELSE IF n \notin seen
              THEN unique_cleaned_from(Tail(names), Append(out, n), seen \cup {n})
              ELSE unique_cleaned_from(Tail(names), out, seen)

(* variant: repeated names are kept *)
unique_cleaned_keep_repeats(names) ==
    SelectSeq([i \in 1..Len(names) |-> trim(names[i])], LAMBDA n : n # <<>>)

unique_cleaned(names) == unique_cleaned_from(names, <<>>, {})

(* A PrefValue is [tag |-> "string", s |-> label] or                      *)
(* [tag |-> "vector", v |-> <<label, ...>>].                               *)
RECURSIVE ranked_from_vector(_)
ranked_from_vector(vec) ==
    IF vec = <<>> THEN <<>>
    ELSE LET s == to_lower(trim(Head(vec))) IN
         IF s # <<>> /\ s \in SHIFT_SET
         THEN <<s>> \o ranked_from_vector(Tail(vec))
         ELSE ranked_from_vector(Tail(vec))

ranked_of(per_day, day) ==
    IF day \in DOMAIN per_day
    THEN LET val == per_day[day] IN
         IF val.tag = "string"
         THEN LET s == to_lower(trim(val.s)) IN
              IF s # <<>> /\ s \in SHIFT_SET THEN <<s>> ELSE <<>>
         ELSE ranked_from_vector(val.v)
    ELSE <<>>

normalize_preferences(raw_prefs) ==
    [emp \in DOMAIN raw_prefs |->
        [day \in DaySet |-> ranked_of(raw_prefs[emp], day)]]

(* prefs[emp][day] of the passes: operator[] default-constructs an empty   *)
(* list for an employee that normalize_preferences did not see.  The       *)
(* variant takes an employee without preference to ask for the morning.    *)
pref_at_first_shift(p, emp, day) ==
    IF emp \in DOMAIN p /\ p[emp][day] # <<>> THEN p[emp][day] ELSE <<Morning>>

pref_at(p, emp, day) ==
    IF emp \in DOMAIN p THEN p[emp][day] ELSE <<>>

empty_schedule == [day \in DaySet |-> [s \in SHIFT_SET |-> <<>>]]

-----------------------------------------------------------------------------
(* Feasibility check *)

(* variant: the number of shifts per day is left out *)
required_of_days_only(c) == Len(DAYS) * c.min_per_shift

required_of(c) == Len(DAYS) * Len(SHIFTS) * c.min_per_shift

supply_of(emps, c) == Len(emps) * c.max_days_per_employee

need_more_of(deficit, c) ==
    (deficit \div c.max_days_per_employee) +
    (IF deficit % c.max_days_per_employee # 0 THEN 1 ELSE 0)

NoError == [kind |-> "none"]

(* The outcomes of feasible_or_raise: no error, the Infeasible error, or,  *)
(* when the division by max_days_per_employee is a division by zero, any   *)
(* outcome of the undefined behaviour (a trap, or an error with garbage).  *)
feasible_or_raise(emps, c) ==
    LET required == required_of(c)
        supply   == supply_of(emps, c)
    IN  IF supply < required
        THEN IF c.max_days_per_employee = 0
             THEN {[kind |-> "trap"]} \cup
                  {[kind |-> "Infeasible", required |-> required,
                    supply |-> supply, need_more |-> g] : g \in {0, 1}}
             ELSE {[kind |-> "Infeasible", required |-> required,
                    supply |-> supply,
                    need_more |-> need_more_of(required - supply, c)]}
        ELSE {NoError}

-----------------------------------------------------------------------------
(* The seeded generator.  std::mt19937 and std::shuffle are library code;  *)
(* the generator is modelled by a full-period congruential generator on a  *)
(* small state, and shuffle by the Fisher-Yates loop drawing from it.      *)

RngStates == 16

(* variant: the generator is seeded differently on every call *)
SeedRng_per_call(seed) == (seed + run) % RngStates

SeedRng(seed) == seed % RngStates

RngNext(r) == (r * 5 + 3) % RngStates

(* a draw in 0..bound-1 from generator state r *)
RngDraw(r, bound) == (r * bound) \div RngStates

SwapAt(s, i, j) == [s EXCEPT ![i] = s[j], ![j] = s[i]]

RECURSIVE shuffle_from(_, _, _)
shuffle_from(s, i, r) ==
    IF i > Len(s) THEN [seq |-> s, rng |-> r]
    ELSE LET r2 == RngNext(r)
             j  == 1 + RngDraw(r2, i)
         IN  shuffle_from(SwapAt(s, i, j), i + 1, r2)

shuffle(s, r) == shuffle_from(s, 2, r)

-----------------------------------------------------------------------------
(* Helpers of schedule_employees *)

(* variant: a full shift takes one more *)
shift_has_capacity_one_over(sc, day, shift) ==
    IF cfg.max_per_shift <= 0 THEN TRUE
    ELSE Len(sc[day][shift]) <= cfg.max_per_shift

(* variant: the last place of a shift is never given away *)
shift_has_capacity_one_short(sc, day, shift) ==
    IF cfg.max_per_shift <= 0 THEN TRUE
    ELSE Len(sc[day][shift]) + 1 < cfg.max_per_shift

shift_has_capacity(sc, day, shift) ==
    IF cfg.max_per_shift <= 0 THEN TRUE
    ELSE Len(sc[day][shift]) < cfg.max_per_shift

under_weekly_cap(dw, emp) == dw[emp] < cfg.max_days_per_employee

push_back(sc, day, shift, emp) ==
    [sc EXCEPT ![day][shift] = Append(@, emp)]

(* variant: the carried-over employees get no precedence *)
candidate_order_employees_only(carry, emps) == emps

candidate_order(carry, emps) ==
    carry \o SelectSeq(emps, LAMBDA e : e \notin Range(carry))

(* variant: only the preferred shifts are tried *)
try_order_ranked_only(ranked) == ranked

try_order_of(ranked) ==
    ranked \o SelectSeq(SHIFTS, LAMBDA s : s \notin Range(ranked))

(* index of the first shift of try_order with spare capacity, 0 if none *)
first_with_capacity(sc, day, try_order) ==
    IF \E i \in 1..Len(try_order) : shift_has_capacity(sc, day, try_order[i])
    THEN CHOOSE i \in 1..Len(try_order) :
            /\ shift_has_capacity(sc, day, try_order[i])
            /\ \A j \in 1..(i - 1) : ~shift_has_capacity(sc, day, try_order[j])
    ELSE 0

(* variant: employees already assigned that day are candidates too *)
backfill_candidates_any(emps, aod, dw, day) ==
    SelectSeq(emps, LAMBDA e : under_weekly_cap(dw, e))

backfill_candidates(emps, aod, dw, day) ==
    SelectSeq(emps, LAMBDA e : e \notin aod[day] /\ under_weekly_cap(dw, e))

(* variant: the backfill adds one employee at most *)
backfill_count_single(ncand, size, added, need) ==
    IF ncand = 0 THEN added
    ELSE IF cfg.max_per_shift > 0 /\ size >= cfg.max_per_shift THEN added
    ELSE added + 1

(* the `for emp : candidates` loop of the backfill: how many are added *)
RECURSIVE backfill_count(_, _, _, _)
backfill_count(ncand, size, added, need) ==
    IF ncand = 0 THEN added
    ELSE IF cfg.max_per_shift > 0 /\ size >= cfg.max_per_shift THEN added
    ELSE IF added + 1 >= need THEN added + 1
    ELSE backfill_count(ncand - 1, size + 1, added + 1, need)

(* variant: a slot one short of the minimum is not reported *)
min_warning_due_lenient(size) == size < cfg.min_per_shift - 1

min_warning_due(size) == size < cfg.min_per_shift

MinWarning(day, shift, size) ==
    [kind |-> "min_staffing", day |-> day, shift |-> shift,
     have |-> size, need |-> cfg.min_per_shift]

RelocateNote(emp, day, shift) ==
    [kind |-> "not_relocated", emp |-> emp, day |-> day, shift |-> shift]

-----------------------------------------------------------------------------
(* Maximum-capacity enforcement.  st is the record of the locals the pass  *)
(* works on: [sched, aod, dw, warnings, pops].                             *)

SetMin(S) == CHOOSE x \in S : \A y \in S : x <= y

place(st, day, shift, emp) ==
    [st EXCEPT !.sched = push_back(@, day, shift, emp),
               !.aod[day] = @ \cup {emp},
               !.dw[emp] = @ + 1]

relocate_same_day(st, day, shift, emp) ==
    LET ok == {i \in 1..Len(SHIFTS) :
                 /\ SHIFTS[i] # shift
                 /\ Len(st.sched[day][SHIFTS[i]]) < cfg.max_per_shift
                 /\ emp \notin st.aod[day]}
    IN  IF ok = {} THEN [st |-> st, placed |-> FALSE]
        ELSE [st |-> place(st, day, SHIFTS[SetMin(ok)], emp), placed |-> TRUE]

relocate_next_day(st, d, emp) ==
    IF d + 1 <= Len(DAYS)
    THEN LET next_day == DAYS[d + 1]
             ok == {i \in 1..Len(SHIFTS) :
                      /\ emp \notin st.aod[next_day]
                      /\ \/ cfg.max_per_shift <= 0
                         \/ Len(st.sched[next_day][SHIFTS[i]]) < cfg.max_per_shift}
         IN  IF ok = {} THEN [st |-> st, placed |-> FALSE]
             ELSE [st |-> place(st, next_day, SHIFTS[SetMin(ok)], emp),
                   placed |-> TRUE]
    ELSE [st |-> st, placed |-> FALSE]

pop_back(st, day, shift) ==
    LET vec == st.sched[day][shift]
        emp == vec[Len(vec)]
        st1 == [st EXCEPT !.sched[day][shift] = SubSeq(vec, 1, Len(vec) - 1),
                          !.pops = @ + 1]
    IN  IF emp \in st.aod[day]
        THEN [st1 EXCEPT !.aod[day] = @ \ {emp}, !.dw[emp] = @ - 1]
        ELSE st1

RECURSIVE enforce_slot(_, _, _)
enforce_slot(st, d, shift) ==
    LET day == DAYS[d]
        vec == st.sched[day][shift]
    IN  IF Len(vec) > cfg.max_per_shift
        THEN LET emp == vec[Len(vec)]
                 st1 == pop_back(st, day, shift)
                 r1  == relocate_same_day(st1, day, shift, emp)
                 r2  == IF r1.placed THEN r1 ELSE relocate_next_day(st1, d, emp)
                 st3 == IF r2.placed THEN r2.st
                        ELSE [st1 EXCEPT !.warnings =
                                 Append(@, RelocateNote(emp, day, shift))]
             IN  enforce_slot(st3, d, shift)
        ELSE st

RECURSIVE enforce_from(_, _, _)
enforce_from(st, d, s) ==
    IF d > Len(DAYS) THEN st
    ELSE IF s > Len(SHIFTS) THEN enforce_from(st, d + 1, 1)
    ELSE enforce_from(enforce_slot(st, d, SHIFTS[s]), d, s + 1)

enforce_max(st) ==
    IF cfg.max_per_shift > 0 THEN enforce_from(st, 1, 1) ELSE st

-----------------------------------------------------------------------------
(* schedule_employees, step by step *)

Idle ==
    /\ employees = <<>>
    /\ prefs = <<>>
    /\ sched = empty_schedule
    /\ assigned_on_day = [d \in DaySet |-> {}]
    /\ days_worked = <<>>
    /\ warnings = <<>>
    /\ carry_over_next_day = [d \in DaySet |-> <<>>]
    /\ order = <<>>
    /\ di = 1
    /\ rank = 0
    /\ idx = 1
    /\ bs = 1
    /\ rng = 0
    /\ err = NoError
    /\ pops = 0

(* lines 139-178: seed the generator, clean the names, check feasibility,  *)
(* normalize the preferences, set up the locals and Monday's order         *)
Call ==
    /\ UNCHANGED nonSchedVars
    /\ pc = "call"
    /\ rng' = SeedRng(cfg.random_seed)
    /\ employees' = unique_cleaned(in_employees)
    /\ IF employees' = <<>>
       THEN /\ pc' = "thrown"
            /\ err' = [kind |-> "InvalidInput"]
            /\ UNCHANGED <<prefs, days_worked, order>>
       ELSE \E e \in feasible_or_raise(employees', cfg) :
               IF e.kind = "none"
               THEN /\ pc' = "greedy"
                    /\ err' = NoError
                    /\ prefs' = normalize_preferences(raw_preferences)
                    /\ days_worked' = [n \in Range(employees') |-> 0]
                    /\ order' = candidate_order(carry_over_next_day[DAYS[1]],
                                                employees')
               ELSE /\ pc' = IF e.kind = "trap" THEN "trapped" ELSE "thrown"
                    /\ err' = e
                    /\ UNCHANGED <<prefs, days_worked, order>>
    /\ UNCHANGED <<in_employees, raw_preferences, cfg, run, prev, sched,
                   assigned_on_day, warnings, carry_over_next_day, di, rank,
                   idx, bs, pops>>

(* lines 181-197: one iteration of the inner loop of the rank loop *)
GreedyStep ==
    /\ UNCHANGED nonSchedVars
    /\ pc = "greedy"
    /\ LET day    == DAYS[di]
           emp    == order[idx]
           ranked == pref_at(prefs, emp, day)
           take   == /\ emp \notin assigned_on_day[day]
                     /\ under_weekly_cap(days_worked, emp)
                     /\ rank < Len(ranked)
                     /\ ranked[rank + 1] \in SHIFT_SET
                     /\ shift_has_capacity(sched, day, ranked[rank + 1])
       IN  IF take
           THEN /\ sched' = push_back(sched, day, ranked[rank + 1], emp)
                /\ assigned_on_day' = [assigned_on_day EXCEPT ![day] = @ \cup {emp}]
                /\ days_worked' = [days_worked EXCEPT ![emp] = @ + 1]
           ELSE UNCHANGED <<sched, assigned_on_day, days_worked>>
    /\ IF idx < Len(order)
       THEN idx' = idx + 1 /\ UNCHANGED <<rank, pc>>
       ELSE /\ idx' = 1
            /\ IF rank < 2
               THEN rank' = rank + 1 /\ UNCHANGED pc
               ELSE rank' = 0 /\ pc' = "fallback"
    /\ UNCHANGED <<in_employees, raw_preferences, cfg, run, prev, employees,
                   prefs, warnings, carry_over_next_day, order, di, bs, rng,
                   err, pops>>

(* lines 200-229: one iteration of the fallback loop; after the last       *)
(* candidate of the day, lines 169-178 of the next day                     *)
FallbackStep ==
    /\ UNCHANGED nonSchedVars
    /\ pc = "fallback"
    /\ LET day    == DAYS[di]
           emp    == order[idx]
           ranked == pref_at(prefs, emp, day)
           try    == try_order_of(ranked)
           k      == first_with_capacity(sched, day, try)
           skip   == \/ emp \in assigned_on_day[day]
                     \/ ~under_weekly_cap(days_worked, emp)
                     \/ ranked = <<>>
       IN  /\ IF ~skip /\ k # 0
              THEN /\ sched' = push_back(sched, day, try[k], emp)
                   /\ assigned_on_day' =
                         [assigned_on_day EXCEPT ![day] = @ \cup {emp}]
                   /\ days_worked' = [days_worked EXCEPT ![emp] = @ + 1]
              ELSE UNCHANGED <<sched, assigned_on_day, days_worked>>
           /\ IF ~skip /\ k = 0 /\ di + 1 <= Len(DAYS)
              THEN carry_over_next_day' =
                      [carry_over_next_day EXCEPT ![DAYS[di + 1]] = Append(@, emp)]
              ELSE UNCHANGED carry_over_next_day
    /\ IF idx < Len(order)
       THEN idx' = idx + 1 /\ UNCHANGED <<di, order, pc>>
       ELSE /\ idx' = 1
            /\ IF di < Len(DAYS)
               THEN /\ di' = di + 1
                    /\ order' = candidate_order(carry_over_next_day'[DAYS[di + 1]],
                                                employees)
                    /\ pc' = "greedy"
               ELSE /\ di' = 1
                    /\ pc' = "backfill"
                    /\ UNCHANGED order
    /\ UNCHANGED <<in_employees, raw_preferences, cfg, run, prev, employees,
                   prefs, warnings, rank, bs, rng, err, pops>>

(* lines 233-268: one (day, shift) of the minimum-staffing backfill *)
BackfillStep ==
    /\ UNCHANGED nonSchedVars
    /\ pc = "backfill"
    /\ LET day   == DAYS[di]
           shift == SHIFTS[bs]
           have  == Len(sched[day][shift])
           need  == cfg.min_per_shift - have
       IN  IF need <= 0
           THEN UNCHANGED <<sched, assigned_on_day, days_worked, warnings, rng>>
           ELSE LET cands == backfill_candidates(employees, assigned_on_day,
                                                 days_worked, day)
                    sh    == shuffle(cands, rng)
                    n     == backfill_count(Len(cands), have, 0, need)
                    added == SubSeq(sh.seq, 1, n)
                IN  /\ rng' = sh.rng
                    /\ sched' = [sched EXCEPT ![day][shift] = @ \o added]
                    /\ assigned_on_day' =
                          [assigned_on_day EXCEPT ![day] = @ \cup Range(added)]
                    /\ days_worked' =
                          [e \in DOMAIN days_worked |->
                              IF e \in Range(added) THEN days_worked[e] + 1
                              ELSE days_worked[e]]
                    /\ warnings' =
                          IF min_warning_due(have + n)
                          THEN Append(warnings, MinWarning(day, shift, have + n))
                          ELSE warnings
    /\ IF bs < Len(SHIFTS)
       THEN bs' = bs + 1 /\ UNCHANGED <<di, pc>>
       ELSE /\ bs' = 1
            /\ IF di < Len(DAYS)
               THEN di' = di + 1 /\ UNCHANGED pc
               ELSE di' = 1 /\ pc' = "enforce"
    /\ UNCHANGED <<in_employees, raw_preferences, cfg, run, prev, employees,
                   prefs, carry_over_next_day, order, rank, idx, err, pops>>

(* lines 270-327: the maximum-capacity enforcement pass and the return *)
EnforceAndReturn ==
    /\ UNCHANGED nonSchedVars
    /\ pc = "enforce"
    /\ LET st == enforce_max([sched |-> sched, aod |-> assigned_on_day,
                              dw |-> days_worked, warnings |-> warnings,
                              pops |-> pops])
       IN  /\ sched' = st.sched
           /\ assigned_on_day' = st.aod
           /\ days_worked' = st.dw
           /\ warnings' = st.warnings
           /\ pops' = st.pops
    /\ pc' = "returned"
    /\ UNCHANGED <<in_employees, raw_preferences, cfg, run, prev, employees,
                   prefs, carry_over_next_day, order, di, rank, idx, bs, rng,
                   err>>

Finished == pc \in {"returned", "thrown", "trapped"}

Outcome == [status |-> pc, sched |-> sched, warnings |-> warnings, err |-> err]

NoOutcome == [status |-> "none"]

(* the caller keeps what the call gave and makes the same call again *)
CallAgain ==
    /\ UNCHANGED nonSchedVars
    /\ Finished
    /\ run = 1
    /\ run' = 2
    /\ prev' = Outcome
    /\ pc' = "call"
    /\ employees' = <<>>
    /\ prefs' = <<>>
    /\ sched' = empty_schedule
    /\ assigned_on_day' = [d \in DaySet |-> {}]
    /\ days_worked' = <<>>
    /\ warnings' = <<>>
    /\ carry_over_next_day' = [d \in DaySet |-> <<>>]
    /\ order' = <<>>
    /\ di' = 1
    /\ rank' = 0
    /\ idx' = 1
    /\ bs' = 1
    /\ rng' = 0
    /\ err' = NoError
    /\ pops' = 0
    /\ UNCHANGED <<in_employees, raw_preferences, cfg>>

-----------------------------------------------------------------------------
(* Inputs of the call *)

Str(l) == [tag |-> "string", s |-> l]

Vec(ls) == [tag |-> "vector", v |-> ls]

Config(mn, mx, md, seed) ==
    [min_per_shift |-> mn, max_per_shift |-> mx,
     max_days_per_employee |-> md, random_seed |-> seed]

DefaultConfig == Config(2, 4, 5, 42)

Input(e, p, c) == [employees |-> e, raw_preferences |-> p, cfg |-> c]

NoPrefs == <<>>

A == <<"A">>

B == <<"B">>

C == <<"C">>

D == <<"D">>

(* example_dataset() and the configuration of main() *)
ExampleEmployees ==
    <<<<"A","l","i","c","e">>, <<"B","o","b">>, <<"C","h","a","r","l","i","e">>, <<"D","i","a","n","a">>, <<"E","v","a","n">>, <<"F","a","r","a","h">>, <<"G","r","a","c","e">>, <<"H","e","n","r","y">>, <<"I","r","i","s">>, <<"J","a","m","a","l">>>>

ExamplePrefs ==
    (<<"A","l","i","c","e">> :> (("Mon" :> Vec(<<<<"m","o","r","n","i","n","g">>, <<"a","f","t","e","r","n","o","o","n">>>>)) @@ ("Tue" :> Str(<<"m","o","r","n","i","n","g">>)) @@ ("Wed" :> Str(<<"m","o","r","n","i","n","g">>)) @@ ("Thu" :> Str(<<"m","o","r","n","i","n","g">>)) @@ ("Fri" :> Str(<<"m","o","r","n","i","n","g">>)))) @@
    (<<"B","o","b">> :> (("Mon" :> Str(<<"e","v","e","n","i","n","g">>)) @@ ("Tue" :> Vec(<<<<"e","v","e","n","i","n","g">>, <<"a","f","t","e","r","n","o","o","n">>>>)) @@ ("Wed" :> Str(<<"e","v","e","n","i","n","g">>)) @@ ("Thu" :> Str(<<"e","v","e","n","i","n","g">>)) @@ ("Fri" :> Str(<<"e","v","e","n","i","n","g">>)))) @@
    (<<"C","h","a","r","l","i","e">> :> (("Mon" :> Str(<<"a","f","t","e","r","n","o","o","n">>)) @@ ("Tue" :> Str(<<"a","f","t","e","r","n","o","o","n">>)) @@ ("Wed" :> Str(<<"a","f","t","e","r","n","o","o","n">>)) @@ ("Thu" :> Str(<<"a","f","t","e","r","n","o","o","n">>)) @@ ("Fri" :> Str(<<"a","f","t","e","r","n","o","o","n">>)))) @@
    (<<"D","i","a","n","a">> :> (("Mon" :> Str(<<"m","o","r","n","i","n","g">>)) @@ ("Tue" :> Str(<<"m","o","r","n","i","n","g">>)) @@ ("Wed" :> Str(<<"e","v","e","n","i","n","g">>)) @@ ("Sat" :> Vec(<<<<"m","o","r","n","i","n","g">>, <<"e","v","e","n","i","n","g">>>>)))) @@
    (<<"E","v","a","n">> :> (("Tue" :> Str(<<"m","o","r","n","i","n","g">>)) @@ ("Wed" :> Str(<<"m","o","r","n","i","n","g">>)) @@ ("Thu" :> Str(<<"e","v","e","n","i","n","g">>)) @@ ("Sun" :> Str(<<"m","o","r","n","i","n","g">>)))) @@
    (<<"F","a","r","a","h">> :> (("Mon" :> Str(<<"e","v","e","n","i","n","g">>)) @@ ("Wed" :> Vec(<<<<"m","o","r","n","i","n","g">>, <<"e","v","e","n","i","n","g">>>>)) @@ ("Fri" :> Str(<<"a","f","t","e","r","n","o","o","n">>)) @@ ("Sun" :> Str(<<"e","v","e","n","i","n","g">>)))) @@
    (<<"G","r","a","c","e">> :> (("Thu" :> Vec(<<<<"m","o","r","n","i","n","g">>, <<"a","f","t","e","r","n","o","o","n">>>>)) @@ ("Fri" :> Str(<<"m","o","r","n","i","n","g">>)) @@ ("Sat" :> Str(<<"a","f","t","e","r","n","o","o","n">>)))) @@
    (<<"H","e","n","r","y">> :> (("Mon" :> Str(<<"a","f","t","e","r","n","o","o","n">>)) @@ ("Tue" :> Vec(<<<<"m","o","r","n","i","n","g">>, <<"a","f","t","e","r","n","o","o","n">>>>)) @@ ("Sat" :> Str(<<"e","v","e","n","i","n","g">>)))) @@
    (<<"I","r","i","s">> :> (("Wed" :> Str(<<"e","v","e","n","i","n","g">>)) @@ ("Thu" :> Str(<<"e","v","e","n","i","n","g">>)) @@ ("Fri" :> Str(<<"e","v","e","n","i","n","g">>)))) @@
    (<<"J","a","m","a","l">> :> (("Tue" :> Str(<<"a","f","t","e","r","n","o","o","n">>)) @@ ("Thu" :> Str(<<"m","o","r","n","i","n","g">>)) @@ ("Sun" :> Vec(<<<<"a","f","t","e","r","n","o","o","n">>, <<"m","o","r","n","i","n","g">>>>))))

ExampleInput == Input(ExampleEmployees, ExamplePrefs, Config(2, 4, 5, 7))

(* bounds of the enumerated inputs *)
MaxRawNames == 3

MaxMinPerShift == 2

MaxMaxPerShift == 2

MaxDaysCap == 7

SeqsUpTo(S, n) == UNION {[1..k -> S] : k \in 0..n}

(* raw names: empty, blank, padded, plain *)
RawNamePool == {<<>>, <<" ">>, A, <<" ","A","\t">>, B}

WeekOf(v) == [d \in DaySet |-> v]

(* raw lists of names, with preferences under a clean and a padded key *)
NameInputs ==
    {Input(l, (A :> WeekOf(Str(Morning))) @@ (<<" ","B">> :> WeekOf(Str(Evening))), c) :
        l \in SeqsUpTo(RawNamePool, MaxRawNames),
        c \in {Config(0, 1, 7, 42), DefaultConfig}}

(* configurations against lists of one to four names *)
NameLists == {<<A>>, <<A, B>>, <<A, B, C>>, <<A, B, C, D>>}

ConfigInputs ==
    {Input(l, NoPrefs, Config(mn, mx, md, 42)) :
        l \in NameLists, mn \in 0..MaxMinPerShift,
        mx \in 0..MaxMaxPerShift, md \in 0..MaxDaysCap}

(* raw preference values: plain, padded and capitalised, unrecognised,     *)
(* empty, lists with repeated and with more than three labels              *)
PrefValues ==
    {Str(Morning),
     Str(<<" ","E","v","e","n","i","n","g","\t">>),
     Str(<<"n","i","g","h","t">>),
     Str(<<>>),
     Vec(<<>>),
     Vec(<<Morning, Afternoon>>),
     Vec(<<Evening, <<"n","i","g","h","t">>, <<>>, <<"M","O","R","N","I","N","G">>>>),
     Vec(<<Morning, Morning>>),
     Vec(<<Afternoon, Morning, Evening, Afternoon>>)}

DayKeySets == {DaySet, {"Mon"}, {"Tue", "Funday"}}

PrefInputs ==
    {Input(<<A, B>>, (A :> [d \in ks |-> v]) @@ (B :> WeekOf(Str(Morning))),
           Config(0, 1, 7, 42)) : v \in PrefValues, ks \in DayKeySets}

(* competition for shifts: each of four employees has no entry or one of   *)
(* three preferences, the same on every day; the second employee's entry   *)
(* may instead cover Monday and Tuesday only                               *)
SchedPrefValues ==
    <<Str(Morning), Vec(<<Morning, Afternoon>>),
      Vec(<<<<" ","E","v","e","n","i","n","g">>, Morning>>)>>

SchedConfigs ==
    {Config(1, 1, 7, 42), Config(1, 2, 6, 7), Config(0, 0, 2, 42)}

SchedPrefs(emps, f) ==
    [e \in {x \in Range(emps) : f[x] # 0} |->
        [d \in (IF f[e] > Len(SchedPrefValues) THEN {"Mon", "Tue"} ELSE DaySet) |->
            SchedPrefValues[IF f[e] > Len(SchedPrefValues) THEN 1 ELSE f[e]]]]

SchedInputs ==
    {Input(<<A, B, C, D>>, SchedPrefs(<<A, B, C, D>>, f), c) :
        f \in {g \in [{A, B, C, D} -> 0..(Len(SchedPrefValues) + 1)] :
                  \A e \in {A, C, D} : g[e] <= Len(SchedPrefValues)},
        c \in SchedConfigs}

E == <<"E">>

F == <<"F">>

(* six employees who all ask for the morning, with a minimum of two above  *)
(* a maximum of one per shift, and with no limit per shift                 *)
CrowdInputs ==
    {Input(<<A, B, C, D, E, F>>,
           [e \in {A, B, C, D, E, F} |-> WeekOf(Str(Morning))], c) :
        c \in {Config(2, 1, 7, 42), Config(2, 0, 7, 7)}}

(* six employees without preferences and a minimum of two per shift: the   *)
(* backfill fills every shift, two at a time                               *)
BackfillInputs ==
    {Input(<<A, B, C, D, E, F>>, NoPrefs, c) :
        c \in {Config(2, 0, 7, 42), Config(2, 2, 7, 7)}}

(* the documented cases: four employees and one employee with defaults,    *)
(* and the data set of main()                                              *)
DocInputs ==
    {Input(<<A, B, C, D>>, NoPrefs, Config(2, 4, 5, 42)),
     Input(<<A>>, NoPrefs, DefaultConfig),
     ExampleInput}

Inputs ==
    NameInputs \cup ConfigInputs \cup PrefInputs \cup SchedInputs
    \cup CrowdInputs \cup BackfillInputs \cup DocInputs

-----------------------------------------------------------------------------
(* Familytree.pl: the fact base *)

male == <<"john", "bob", "eric", "frank", "ian">>

female == <<"anna", "clara", "diana", "eva", "grace", "helen">>

(* variant: one more fact, which makes john a child of ian *)
parent_in_a_circle ==
    << <<"john", "bob">>,    <<"anna", "bob">>,
       <<"john", "clara">>,  <<"anna", "clara">>,
       <<"bob", "eva">>,     <<"diana", "eva">>,
       <<"bob", "frank">>,   <<"diana", "frank">>,
       <<"clara", "grace">>, <<"eric", "grace">>,
       <<"frank", "ian">>,   <<"helen", "ian">>,
       <<"ian", "john">> >>

parent == << <<"john", "bob">>,    <<"anna", "bob">>,
             <<"john", "clara">>,  <<"anna", "clara">>,
             <<"bob", "eva">>,     <<"diana", "eva">>,
             <<"bob", "frank">>,   <<"diana", "frank">>,
             <<"clara", "grace">>, <<"eric", "grace">>,
             <<"frank", "ian">>,   <<"helen", "ian">> >>

People == Range(male) \cup Range(female)

(* An argument of a goal is a person or the unbound variable Var.  The     *)
(* solutions of a goal are the sequence of ground argument tuples in the   *)
(* order in which resolution finds them (clauses top to bottom, goals left *)
(* to right), duplicates kept.                                             *)
Var == "_"

bound(t) == t # Var

matches(t, v) == t = Var \/ t = v

RECURSIVE Flatten(_)
Flatten(ss) == IF ss = <<>> THEN <<>> ELSE Head(ss) \o Flatten(Tail(ss))

(* parent(X, Y): the facts that unify with the goal, in file order *)
parent_sols(x, y) ==
    SelectSeq(parent, LAMBDA f : matches(x, f[1]) /\ matches(y, f[2]))

(* variant: the X \= Y test is left out *)
sibling_sols_with_self(x, y) ==
    LET px == parent_sols(Var, x)
    IN  Flatten([i \in 1..Len(px) |->
            LET py == parent_sols(px[i][1], y)
            IN  [j \in 1..Len(py) |-> <<px[i][2], py[j][2]>>]])

(* sibling(X, Y) :- parent(P, X), parent(P, Y), X \= Y. *)
sibling_sols(x, y) ==
    LET px == parent_sols(Var, x)
    IN  Flatten([i \in 1..Len(px) |->
            LET py == parent_sols(px[i][1], y)
                ok == SelectSeq(py, LAMBDA g : px[i][2] # g[2])
            IN  [j \in 1..Len(ok) |-> <<px[i][2], ok[j][2]>>]])

(* variant: the recursive clause is left out *)
ancestor_sols_one_link(a, d) == parent_sols(a, d)

(* ancestor(A, D) :- parent(A, D).                                         *)
(* ancestor(A, D) :- parent(A, M), ancestor(M, D).                         *)
RECURSIVE ancestor_sols(_, _)
ancestor_sols(a, d) ==
    LET pam == parent_sols(a, Var)
    IN  parent_sols(a, d) \o
        Flatten([i \in 1..Len(pam) |->
            LET rec == ancestor_sols(pam[i][2], d)
            IN  [j \in 1..Len(rec) |-> <<pam[i][1], rec[j][2]>>]])

(* ancestor_n(A, D, 1) :- parent(A, D).                                    *)
(* ancestor_n(A, D, N) :- N > 1, parent(A, M), N1 is N - 1,                *)
(*                        ancestor_n(M, D, N1).                            *)
RECURSIVE ancestor_n_sols(_, _, _)
ancestor_n_sols(a, d, n) ==
    LET pam == parent_sols(a, Var)
    IN  (IF n = 1 THEN parent_sols(a, d) ELSE <<>>) \o
        (IF n > 1
         THEN Flatten([i \in 1..Len(pam) |->
                 LET rec == ancestor_n_sols(pam[i][2], d, n - 1)
                 IN  [j \in 1..Len(rec) |-> <<pam[i][1], rec[j][2]>>]])
         ELSE <<>>)

(* variant: three generations instead of two *)
grandparent_sols_three(gp, gc) == ancestor_n_sols(gp, gc, 3)

(* grandparent(GP, GC) :- ancestor_n(GP, GC, 2). *)
grandparent_sols(gp, gc) == ancestor_n_sols(gp, gc, 2)

(* variant: the closure runs from child to parent *)
descendant_sols_inverse(a, d) ==
    LET up == ancestor_sols(d, a)
    IN  [i \in 1..Len(up) |-> <<up[i][2], up[i][1]>>]

(* descendant(A, D) :- parent(A, D).                                       *)
(* descendant(A, D) :- parent(A, M), descendant(M, D).                     *)
RECURSIVE descendant_sols(_, _)
descendant_sols(a, d) ==
    LET pam == parent_sols(a, Var)
    IN  parent_sols(a, d) \o
        Flatten([i \in 1..Len(pam) |->
            LET rec == descendant_sols(pam[i][2], d)
            IN  [j \in 1..Len(rec) |-> <<pam[i][1], rec[j][2]>>]])

(* cousin(X, Y) :- X \= Y, parent(PX, X), parent(PY, Y), sibling(PX, PY).  *)
(* X \= Y fails when X and Y unify, so it fails if either is unbound.      *)
cousin_sols(x, y) ==
    IF ~bound(x) \/ ~bound(y) \/ x = y THEN <<>>
    ELSE LET px == parent_sols(Var, x)
             py == parent_sols(Var, y)
         IN  Flatten([i \in 1..Len(px) |->
                Flatten([j \in 1..Len(py) |->
                   LET sb == sibling_sols(px[i][1], py[j][1])
                   IN  [k \in 1..Len(sb) |-> <<x, y>>]])])

(* bound of the generation count of the ancestor_n goals put to the rules *)
MaxGenerations == 4

Terms == People \cup {Var}

Goal(r, x, y, n) == [rel |-> r, x |-> x, y |-> y, n |-> n]

Queries ==
    {Goal(r, x, y, 0) :
        r \in {"parent", "sibling", "ancestor", "grandparent", "descendant", "cousin"},
        x \in Terms, y \in Terms}
    \cup {Goal("ancestor_n", x, y, n) :
            x \in Terms, y \in Terms, n \in (-1)..MaxGenerations}

solve(q) ==
    CASE q.rel = "parent"      -> parent_sols(q.x, q.y)
      [] q.rel = "sibling"     -> sibling_sols(q.x, q.y)
      [] q.rel = "ancestor"    -> ancestor_sols(q.x, q.y)
      [] q.rel = "ancestor_n"  -> ancestor_n_sols(q.x, q.y, q.n)
      [] q.rel = "grandparent" -> grandparent_sols(q.x, q.y)
      [] q.rel = "descendant"  -> descendant_sols(q.x, q.y)
      [] q.rel = "cousin"      -> cousin_sols(q.x, q.y)

KinOff ==
    /\ kin_pc = "off"
    /\ kin_query = Goal("parent", Var, Var, 0)
    /\ kin_answers = <<>>
    /\ kin_stack = <<>>

KinInit ==
    /\ kin_pc = "asked"
    /\ kin_query \in Queries
    /\ kin_answers = <<>>
    /\ kin_stack = <<>>

(* the query is run to completion and all its solutions are collected *)
KinSolve ==
    /\ kin_pc = "asked"
    /\ kin_answers' = solve(kin_query)
    /\ kin_pc' = "answered"
    /\ UNCHANGED <<kin_query, kin_stack>>
    /\ UNCHANGED nonKinVars

(* Resolution of the recursive rules, call by call.  A call of ancestor,   *)
(* descendant or ancestor_n is the parent chain that led to it, from the   *)
(* first argument of the goal (Var while it is unbound) to the person the  *)
(* rule is now called on, and the generations N left to count.  The calls  *)
(* still to be run are kept as a stack, the next one first, which is the   *)
(* depth-first, clause-by-clause order of the engine.                      *)
Frame(chain, n) == [chain |-> chain, n |-> n]

RecursiveRules == {"ancestor", "descendant", "ancestor_n"}

RecursiveQueries == {q \in Queries : q.rel \in RecursiveRules}

(* cap on the parent links of a chain that a call may be made with *)
MaxLinks == 4

(* the binding of the goal's first argument in a call that uses fact f *)
bound_top(fr, f) == IF fr.chain[1] = Var THEN f[1] ELSE fr.chain[1]

(* first clause: parent(A, D); for ancestor_n it needs N = 1 *)
clause_answers(q, fr) ==
    LET ps == parent_sols(fr.chain[Len(fr.chain)], q.y)
    IN  IF q.rel = "ancestor_n" /\ fr.n # 1 THEN <<>>
        ELSE [i \in 1..Len(ps) |-> <<bound_top(fr, ps[i]), ps[i][2]>>]

(* second clause: parent(A, M), then the rule on M; for ancestor_n it      *)
(* needs N > 1 and goes on with N - 1                                      *)
clause_calls(q, fr) ==
    LET pam == parent_sols(fr.chain[Len(fr.chain)], Var)
    IN  IF q.rel = "ancestor_n" /\ ~(fr.n > 1) THEN <<>>
        ELSE [i \in 1..Len(pam) |->
                Frame((IF fr.chain[1] = Var THEN <<pam[i][1]>> ELSE fr.chain)
                         \o <<pam[i][2]>>,
                      IF q.rel = "ancestor_n" THEN fr.n - 1 ELSE 0)]

KinRunInit ==
    /\ kin_pc = "asked"
    /\ kin_query \in RecursiveQueries
    /\ kin_answers = <<>>
    /\ kin_stack = <<>>

(* the goal is called *)
KinCall ==
    /\ kin_pc = "asked"
    /\ kin_query.rel \in RecursiveRules
    /\ kin_stack' = <<Frame(<<kin_query.x>>, kin_query.n)>>
    /\ kin_pc' = "running"
    /\ UNCHANGED <<kin_query, kin_answers>>
    /\ UNCHANGED nonKinVars

(* the next call is run: the solutions of its first clause are reported,   *)
(* the calls of its second clause are put before the calls that wait       *)
KinStep ==
    /\ kin_pc = "running"
    /\ kin_stack # <<>>
    /\ Len(Head(kin_stack).chain) - 1 <= MaxLinks
    /\ kin_answers' = kin_answers \o clause_answers(kin_query, Head(kin_stack))
    /\ kin_stack' = clause_calls(kin_query, Head(kin_stack)) \o Tail(kin_stack)
    /\ UNCHANGED <<kin_pc, kin_query>>
    /\ UNCHANGED nonKinVars

(* no call is left: the goal has no more solutions *)
KinExhausted ==
    /\ kin_pc = "running"
    /\ kin_stack = <<>>
    /\ kin_pc' = "answered"
    /\ UNCHANGED <<kin_query, kin_answers, kin_stack>>
    /\ UNCHANGED nonKinVars

-----------------------------------------------------------------------------
(* The two statistics calculators: stats.ml (functional) and the C program  *)
(* (array-based).  A command-line token is a sequence of one-character      *)
(* strings.  A floating-point result that is a whole number or a whole      *)
(* number and a half is the record [whole, half] with value whole + half/2. *)

INT_MAX == 2147483647

INT_MIN == -INT_MAX - 1

EXIT_SUCCESS == 0

EXIT_FAILURE == 1

DigitChars == <<"0","1","2","3","4","5","6","7","8","9","a","b","c","d","e","f">>

(* value of a digit character, -1 when it is none *)
parse_digit(c) ==
    IF \E i \in 1..Len(DigitChars) : DigitChars[i] = tolower(c)
    THEN (CHOOSE i \in 1..Len(DigitChars) : DigitChars[i] = tolower(c)) - 1
    ELSE -1

(* the largest m with m * b + d <= INT_MAX + 1 *)
digit_limit(d, b) ==
    IF d >= 1 THEN (INT_MAX - (d - 1)) \div b
    ELSE (INT_MAX \div b) + (IF INT_MAX % b = b - 1 THEN 1 ELSE 0)

(* Digits are accumulated as a negative number, so that the magnitude of    *)
(* INT_MIN is reached; `wide` tells that the number left the 32-bit range.  *)
RECURSIVE accumulate(_, _, _)
accumulate(ds, b, acc) ==
    IF ds = <<>> THEN acc
    ELSE IF acc.wide \/ acc.v < -digit_limit(Head(ds), b)
         THEN [v |-> 0, wide |-> TRUE]
         ELSE accumulate(Tail(ds), b, [v |-> acc.v * b - Head(ds), wide |-> FALSE])

(* apply the sign to an accumulated magnitude *)
signed_value(acc, negative) ==
    IF acc.wide \/ (~negative /\ acc.v = INT_MIN)
    THEN [v |-> 0, wide |-> TRUE]
    ELSE [v |-> IF negative THEN acc.v ELSE -acc.v, wide |-> FALSE]

(* first index at or after i whose character is not an accepted one,        *)
(* Len(s)+1 if there is none                                                *)
scan_while(s, i, accepted) ==
    LET stops == {j \in i..(Len(s) + 1) : j = Len(s) + 1 \/ s[j] \notin accepted}
    IN CHOOSE j \in stops : \A k \in stops : j <= k

(* strtol(s, &end, 10): leading white space, an optional sign, decimal      *)
(* digits.  `end` is the index of the first character not consumed (1 when  *)
(* no digits were found); `wide` stands for a result outside int, whether   *)
(* strtol itself reported ERANGE or not.                                    *)
strtol(s) ==
    LET i0  == scan_while(s, 1, {c \in Range(s) : isspace(c)})
        sgn == i0 <= Len(s) /\ s[i0] \in {"-", "+"}
        i1  == IF sgn THEN i0 + 1 ELSE i0
        i2  == scan_while(s, i1, {c \in Range(s) : parse_digit(c) \in 0..9})
        ds  == [k \in 1..(i2 - i1) |-> parse_digit(s[i1 + k - 1])]
        val == signed_value(accumulate(ds, 10, [v |-> 0, wide |-> FALSE]),
                            sgn /\ s[i0] = "-")
    IN IF i2 = i1 THEN [end |-> 1, v |-> 0, wide |-> FALSE]
       ELSE [end |-> i2, v |-> val.v, wide |-> val.wide]

parse_int_strict(s) ==
    LET r == strtol(s) IN
    IF r.end = 1 \/ r.end # Len(s) + 1 THEN [ok |-> FALSE, v |-> 0]
    ELSE IF r.wide THEN [ok |-> FALSE, v |-> 0]
    ELSE [ok |-> TRUE, v |-> r.v]

(* int_of_string_opt: an optional sign, an optional base prefix 0x 0o 0b    *)
(* 0u, one digit of the base, then digits of the base and underscores up    *)
(* to the end of the string.  `wide` stands for a number outside the 32-bit *)
(* range, which OCaml's 63-bit int may still hold.                          *)
base_of(c) ==
    CASE tolower(c) = "x" -> 16
      [] tolower(c) = "o" -> 8
      [] tolower(c) = "b" -> 2
      [] tolower(c) = "u" -> 10
      [] OTHER -> 0

int_of_string_opt(s) ==
    LET sgn  == s # <<>> /\ s[1] \in {"-", "+"}
        i0   == IF sgn THEN 2 ELSE 1
        pre  == i0 + 1 <= Len(s) /\ s[i0] = "0" /\ base_of(s[i0 + 1]) # 0
        base == IF pre THEN base_of(s[i0 + 1]) ELSE 10
        i1   == IF pre THEN i0 + 2 ELSE i0
        isd(c) == parse_digit(c) >= 0 /\ parse_digit(c) < base
        i2   == scan_while(s, i1, {c \in Range(s) : c = "_" \/ isd(c)})
        body == SelectSeq(SubSeq(s, i1, i2 - 1), LAMBDA c : c # "_")
        ds   == [k \in 1..Len(body) |-> parse_digit(body[k])]
        val  == signed_value(accumulate(ds, base, [v |-> 0, wide |-> FALSE]),
                             sgn /\ s[1] = "-")
    IN IF i1 > Len(s) \/ ~isd(s[i1]) \/ i2 # Len(s) + 1
       THEN [some |-> FALSE, v |-> 0, wide |-> FALSE]
       ELSE [some |-> TRUE, v |-> val.v, wide |-> val.wide]

(* ascending insertion; List.sort compare and qsort with cmp_int both       *)
(* order integers ascending                                                 *)
RECURSIVE insert_sorted(_, _)
insert_sorted(x, s) ==
    IF s = <<>> THEN <<x>>
    ELSE IF x <= Head(s) THEN <<x>> \o s
    ELSE <<Head(s)>> \o insert_sorted(x, Tail(s))

RECURSIVE List_sort(_)
List_sort(xs) ==
    IF xs = <<>> THEN <<>> ELSE insert_sorted(Head(xs), List_sort(Tail(xs)))

qsort(a) == List_sort(a)

(* a sum that may leave the 32-bit range, kept as hi * 65536 + lo *)
Radix == 65536

RECURSIVE sum_from(_, _)
sum_from(xs, acc) ==
    IF xs = <<>> THEN acc
    ELSE LET l == acc.lo + (Head(xs) % Radix) IN
         sum_from(Tail(xs), [hi |-> acc.hi + (Head(xs) \div Radix) + (l \div Radix),
                             lo |-> l % Radix])

(* mean: the exact sum (OCaml int, C long long) over the count *)
mean(xs) == [sum |-> sum_from(xs, [hi |-> 0, lo |-> 0]), count |-> Len(xs)]

Whole(x) == [whole |-> x, half |-> 0]

(* (a + b) / 2.0 for the exact sum a + b *)
half_of_sum(a, b) ==
    [whole |-> (a \div 2) + (b \div 2) + (((a % 2) + (b % 2)) \div 2),
     half  |-> ((a % 2) + (b % 2)) % 2]

(* stats.ml median: OCaml's a + b is exact for 32-bit operands *)
median(xs) ==
    LET s == List_sort(xs)
        n == Len(s)
    IN IF n % 2 = 1 THEN Whole(s[n \div 2 + 1])
       ELSE half_of_sum(s[n \div 2], s[n \div 2 + 1])

int_add_fits(a, b) ==
    IF b >= 0 THEN a <= INT_MAX - b ELSE a >= INT_MIN - b

(* the sum of two ints that overflows, reduced modulo 2^32 *)
int_add_wrapped(a, b) ==
    IF b >= 0 THEN (a + INT_MIN) + (b + INT_MIN)
    ELSE (a - INT_MIN) + (b - INT_MIN)

Trap == [kind |-> "trap"]

Value(d) == [kind |-> "value", d |-> d]

(* median_sorted: the set of results the build can produce.  left + right   *)
(* is an int addition; when it overflows the behaviour is undefined: the    *)
(* sum wraps around, or the program traps (-ftrapv, sanitizers).            *)
median_sorted(sorted, n) ==
    IF n % 2 = 1 THEN {Value(Whole(sorted[n \div 2 + 1]))}
    ELSE LET left  == sorted[n \div 2]
             right == sorted[n \div 2 + 1]
         IN IF int_add_fits(left, right)
            THEN {Value(half_of_sum(left, right))}
            ELSE {Value([whole |-> int_add_wrapped(left, right) \div 2,
                         half  |-> int_add_wrapped(left, right) % 2]),
                  Trap}

(* freq_map: value -> number of occurrences *)
RECURSIVE freq_map_from(_, _)
freq_map_from(m, xs) ==
    IF xs = <<>> THEN m
    ELSE LET x == Head(xs) IN
         freq_map_from(
             IF x \in DOMAIN m THEN [m EXCEPT ![x] = @ + 1]
             ELSE [k \in DOMAIN m \cup {x} |-> IF k = x THEN 1 ELSE m[k]],
             Tail(xs))

freq_map(xs) == freq_map_from([k \in {} |-> 0], xs)

(* IntMap.bindings: the bindings in increasing order of the keys *)
RECURSIVE bindings_of(_, _)
bindings_of(m, keys) ==
    IF keys = {} THEN <<>>
    ELSE LET least == CHOOSE k \in keys : \A j \in keys : k <= j IN
         <<[v |-> least, c |-> m[least]]>> \o bindings_of(m, keys \ {least})

bindings(m) == bindings_of(m, DOMAIN m)

RECURSIVE fold_max(_, _)
fold_max(b, acc) ==
    IF b = <<>> THEN acc
    ELSE fold_max(Tail(b), IF Head(b).c > acc THEN Head(b).c ELSE acc)

(* keeps every value, whatever its frequency *)
modes_unfiltered(xs) ==
    LET m == freq_map(xs)
        b == bindings(m)
    IN List_sort([i \in 1..Len(b) |-> b[i].v])

(* stats.ml modes *)
modes(xs) ==
    LET m    == freq_map(xs)
        maxf == fold_max(bindings(m), 0)
        kept == SelectSeq(bindings(m), LAMBDA p : p.c = maxf)
    IN List_sort([i \in 1..Len(kept) |-> kept[i].v])

(* modes_from_sorted: one run of equal values at a time *)
RECURSIVE run_length(_, _, _)
run_length(sorted, i, count) ==
    IF i + count <= Len(sorted) /\ sorted[i + count] = sorted[i]
    THEN run_length(sorted, i, count + 1)
    ELSE count

RECURSIVE modes_scan(_, _, _, _)
modes_scan(sorted, i, maxf, modes_out) ==
    IF i > Len(sorted) THEN [modes |-> modes_out, maxfreq |-> maxf]
    ELSE LET value == sorted[i]
             count == run_length(sorted, i, 1)
         IN IF count > maxf
            THEN modes_scan(sorted, i + count, count, <<value>>)
            ELSE IF count = maxf
            THEN modes_scan(sorted, i + count, maxf, Append(modes_out, value))
            ELSE modes_scan(sorted, i + count, maxf, modes_out)

modes_from_sorted(sorted, n) ==
    IF n = 0 THEN [modes |-> <<>>, maxfreq |-> 0]
    ELSE modes_scan(sorted, 1, 0, <<>>)

(* What a run leaves behind: exit status, lines on stderr, the report *)
UsageLine == [kind |-> "usage"]

ExampleLine == [kind |-> "example"]

InvalidLine(tok) == [kind |-> "invalid", token |-> tok]

NoReport == [kind |-> "none"]

Exited(code, errlines, report) ==
    [kind |-> "exited", exit |-> code, stderr |-> errlines, stdout |-> report]

Trapped == [kind |-> "trapped", stderr |-> <<>>, stdout |-> NoReport]

NotRun == [kind |-> "not_run"]

StatOffResult == [kind |-> "off"]

(* stats.ml: describe *)
describe(xs) ==
    [kind |-> "report", count |-> Len(xs), mean |-> mean(xs),
     median |-> median(xs), modes |-> modes(xs)]

(* index of the first FALSE in a list of verdicts, 0 if there is none *)
first_bad(oks) ==
    LET bad == {i \in 1..Len(oks) : ~oks[i]}
    IN IF bad = {} THEN 0 ELSE CHOOSE i \in bad : \A k \in bad : i <= k

(* stats.ml: parse_cli, then describe and print_string.  args is argv       *)
(* without the program name.                                                *)
parse_cli(args) ==
    LET bad == first_bad([i \in 1..Len(args) |-> int_of_string_opt(args[i]).some]) IN
    IF Len(args) = 0
    THEN [exited |-> TRUE, out |-> Exited(1, <<UsageLine, ExampleLine>>, NoReport)]
    ELSE IF bad # 0
    THEN [exited |-> TRUE, out |-> Exited(2, <<InvalidLine(args[bad])>>, NoReport)]
    ELSE [exited |-> FALSE,
          data |-> [i \in 1..Len(args) |-> int_of_string_opt(args[i]).v]]

ml_main(args) ==
    LET p == parse_cli(args) IN
    IF p.exited THEN p.out ELSE Exited(0, <<>>, describe(p.data))

die_usage == Exited(EXIT_FAILURE, <<UsageLine, ExampleLine>>, NoReport)

(* reports a bad token and carries on with the report *)
c_main_lenient(args) ==
    LET bad == first_bad([i \in 1..Len(args) |-> parse_int_strict(args[i]).ok])
        good == SelectSeq(args, LAMBDA s : parse_int_strict(s).ok)
        a   == [i \in 1..Len(good) |-> parse_int_strict(good[i]).v]
        sorted == qsort(a)
        mo  == modes_from_sorted(sorted, Len(a))
    IN IF Len(args) = 0 THEN {die_usage}
       ELSE {Exited(IF bad # 0 THEN EXIT_FAILURE ELSE EXIT_SUCCESS,
                    IF bad # 0 THEN <<InvalidLine(args[bad])>> ELSE <<>>,
                    [kind |-> "report", count |-> Len(a), mean |-> mean(a),
                     median |-> Whole(0), modes |-> mo.modes,
                     maxfreq |-> mo.maxfreq])}

(* the C program's main: the set of ways the run can end *)
c_main(args) ==
    LET bad == first_bad([i \in 1..Len(args) |-> parse_int_strict(args[i]).ok])
        a   == [i \in 1..Len(args) |-> parse_int_strict(args[i]).v]
        sorted == qsort(a)
        mo  == modes_from_sorted(sorted, Len(a))
    IN IF Len(args) = 0 THEN {die_usage}
       ELSE IF bad # 0
       THEN {Exited(EXIT_FAILURE, <<InvalidLine(args[bad])>>, NoReport)}
       ELSE {IF med.kind = "trap" THEN Trapped
             ELSE Exited(EXIT_SUCCESS, <<>>,
                         [kind |-> "report", count |-> Len(a), mean |-> mean(a),
                          median |-> med.d, modes |-> mo.modes,
                          maxfreq |-> mo.maxfreq])
             : med \in median_sorted(sorted, Len(a))}

(* Command lines *)
Tok1 == <<"1">>

Tok2 == <<"2">>

Tok3 == <<"3">>

Tok4 == <<"4">>

Tok5 == <<"5">>

TokMinus2 == <<"-","2">>

TokMax == <<"2","1","4","7","4","8","3","6","4","7">>

TokMin == <<"-","2","1","4","7","4","8","3","6","4","8">>

TokOver == <<"2","1","4","7","4","8","3","6","4","8">>

(* tokens: plain, negative, the ends of the int range, one past it, not a   *)
(* number, empty, led by a blank, with an underscore, with a plus sign      *)
TokenPool == {Tok1, Tok2, TokMinus2, TokMax, TokMin, TokOver,
              <<"x">>, <<>>, <<" ","1">>, <<"1","_","0">>, <<"+","2">>}

MaxArgs == 2

DocSampleRepeats == <<Tok1, Tok2, Tok2, Tok3, Tok4, Tok4, Tok4, Tok5>>

DocSampleDistinct == <<Tok1, Tok2, Tok3, Tok4>>

DocSamples == {DocSampleRepeats, DocSampleDistinct}

(* samples of three small numbers: an odd count, with and without repeats *)
OddSamples == [1..3 -> {Tok1, Tok2, TokMinus2}]

CommandLines == SeqsUpTo(TokenPool, MaxArgs) \cup DocSamples \cup OddSamples

(* the functional calculator is run on the command lines whose numbers the  *)
(* model can hold                                                           *)
ml_representable(args) ==
    \A i \in 1..Len(args) : ~int_of_string_opt(args[i]).wide

StatOff ==
    /\ stat_argv = <<>>
    /\ ml_result = StatOffResult
    /\ c_result = StatOffResult

StatInit ==
    /\ stat_argv \in CommandLines
    /\ ml_result = NotRun
    /\ c_result = NotRun

(* stats.ml is run on the command line *)
MLMain ==
    /\ ml_result = NotRun
    /\ ml_representable(stat_argv)
    /\ ml_result' = ml_main(stat_argv)
    /\ UNCHANGED <<stat_argv, c_result>>
    /\ UNCHANGED nonStatVars

(* the C program is run on the command line *)
CMain ==
    /\ c_result = NotRun
    /\ c_result' \in c_main(stat_argv)
    /\ UNCHANGED <<stat_argv, ml_result>>
    /\ UNCHANGED nonStatVars

-----------------------------------------------------------------------------
(* The ride simulation (ride_share.cpp).  The doubles of the program are    *)
(* decimal numbers with few digits; they are kept exactly, as integers:     *)
(* miles in tenths, the surge multiplier in hundredths, money in units of   *)
(* 1/100000 dollar.                                                         *)

UnitsPerCent == 1000

Cents(c) == c * UnitsPerCent

DefaultSurge == 100

Ride(kind, id, pickup, dropoff, miles, surge) ==
    [kind |-> kind, rideID |-> id, pickupLocation |-> pickup,
     dropoffLocation |-> dropoff, distance |-> miles, surgeMultiplier |-> surge]

StandardRide(id, pickup, dropoff, miles) ==
    Ride("Standard", id, pickup, dropoff, miles, DefaultSurge)

PremiumRide(id, pickup, dropoff, miles, surge) ==
    Ride("Premium", id, pickup, dropoff, miles, surge)

(* PremiumRide constructed without a surge argument *)
PremiumRideNoSurge(id, pickup, dropoff, miles) ==
    PremiumRide(id, pickup, dropoff, miles, DefaultSurge)

miles(r) == r.distance

(* 3.00 + miles() * 1.50 : tenths of a mile times cents is 1/1000 dollar *)
StandardRide_fare(r) == Cents(300) + miles(r) * 150 * 100

(* 5.00 + miles() * 2.50 * surgeMultiplier *)
PremiumRide_fare(r) == Cents(500) + miles(r) * 250 * r.surgeMultiplier

(* every ride priced as a standard ride *)
fare_standard_only(r) == StandardRide_fare(r)

(* virtual dispatch on the ride's class *)
fare(r) ==
    IF r.kind = "Standard" THEN StandardRide_fare(r) ELSE PremiumRide_fare(r)

(* the rides of main, and one premium ride without a surge argument *)
R1001 == StandardRide("R1001", "Downtown", "Airport", 152)

R1002 == PremiumRide("R1002", "UT Austin", "The Domain", 85, 130)

R1003 == StandardRide("R1003", "Capitol", "Zilker Park", 51)

R1004 == PremiumRide("R1004", "South Congress", "Downtown", 38, 175)

R1005 == PremiumRideNoSurge("R1005", "Airport", "Downtown", 152)

RideObjects == {R1001, R1002, R1003, R1004, R1005}

RideIds == {r.rideID : r \in RideObjects}

Drivers == {"D01", "D02"}

Riders == {"U01"}

MaxCalls == 3

NoOutput == [kind |-> "none"]

(* Driver::totalEarnings over a list of references *)
RECURSIVE earnings_from(_, _, _)
earnings_from(objs, list, sum) ==
    IF list = <<>> THEN sum
    ELSE earnings_from(objs, Tail(list), sum + fare(objs[Head(list)]))

totalEarnings(objs, list) == earnings_from(objs, list, 0)

(* Ride::rideDetails: what is printed of one ride *)
rideDetails(r) ==
    [type |-> r.kind, rideID |-> r.rideID, pickup |-> r.pickupLocation,
     dropoff |-> r.dropoffLocation, miles |-> r.distance, fare |-> fare(r)]

RideOff ==
    /\ ride_objects = <<>>
    /\ assignedRides = <<>>
    /\ requestedRides = <<>>
    /\ ride_calls = 0
    /\ ride_log = <<>>
    /\ ride_out = [kind |-> "off"]

RideInit ==
    /\ ride_objects = [i \in RideIds |-> CHOOSE r \in RideObjects : r.rideID = i]
    /\ assignedRides = [d \in Drivers |-> <<>>]
    /\ requestedRides = [u \in Riders |-> <<>>]
    /\ ride_calls = 0
    /\ ride_log = <<>>
    /\ ride_out = NoOutput

(* a call as main makes it: the receiver and the ride passed *)
RideCall(who, ride) == [who |-> who, ride |-> ride]

(* variant: a ride the driver already has is not added again *)
addRide_once(d, ride) ==
    /\ ride_calls < MaxCalls
    /\ assignedRides' =
          [assignedRides EXCEPT
              ![d] = IF \E i \in 1..Len(@) : @[i] = ride THEN @ ELSE Append(@, ride)]
    /\ ride_calls' = ride_calls + 1
    /\ ride_log' = Append(ride_log, RideCall(d, ride))
    /\ UNCHANGED <<ride_objects, requestedRides, ride_out>>
    /\ UNCHANGED nonRideVars

(* Driver::addRide *)
addRide(d, ride) ==
    /\ ride_calls < MaxCalls
    /\ assignedRides' = [assignedRides EXCEPT ![d] = Append(@, ride)]
    /\ ride_calls' = ride_calls + 1
    /\ ride_log' = Append(ride_log, RideCall(d, ride))
    /\ UNCHANGED <<ride_objects, requestedRides, ride_out>>
    /\ UNCHANGED nonRideVars

(* Rider::requestRide *)
requestRide(u, ride) ==
    /\ ride_calls < MaxCalls
    /\ requestedRides' = [requestedRides EXCEPT ![u] = Append(@, ride)]
    /\ ride_calls' = ride_calls + 1
    /\ ride_log' = Append(ride_log, RideCall(u, ride))
    /\ UNCHANGED <<ride_objects, assignedRides, ride_out>>
    /\ UNCHANGED nonRideVars

(* Driver::getDriverInfo *)
getDriverInfo(d) ==
    /\ ride_out' = [kind |-> "driver", who |-> d,
                    rides |-> [i \in 1..Len(assignedRides[d]) |->
                                  rideDetails(ride_objects[assignedRides[d][i]])],
                    total |-> totalEarnings(ride_objects, assignedRides[d])]
    /\ UNCHANGED <<ride_objects, assignedRides, requestedRides, ride_calls,
                   ride_log>>
    /\ UNCHANGED nonRideVars

(* Rider::viewRides *)
viewRides(u) ==
    /\ ride_out' = [kind |-> "rider", who |-> u,
                    rides |-> [i \in 1..Len(requestedRides[u]) |->
                                  rideDetails(ride_objects[requestedRides[u][i]])]]
    /\ UNCHANGED <<ride_objects, assignedRides, requestedRides, ride_calls,
                   ride_log>>
    /\ UNCHANGED nonRideVars

AddRideCall == \E d \in Drivers, i \in RideIds : addRide(d, i)

RequestRideCall == \E u \in Riders, i \in RideIds : requestRide(u, i)

DriverInfoCall == \E d \in Drivers : getDriverInfo(d)

ViewRidesCall == \E u \in Riders : viewRides(u)

-----------------------------------------------------------------------------
(* The expense tracker (expense_tracker.py, named by README.md).  The       *)
(* foreground owns the ledger; every mutation posts a snapshot of the full  *)
(* ledger to a single-slot mailbox; one persistence task takes the pending  *)
(* snapshot and writes it to the file.                                      *)

NoSnapshot == [full |-> FALSE, ledger |-> <<>>]

Snapshot(l) == [full |-> TRUE, ledger |-> l]

Expense(id, amount, category) == [id |-> id, amount |-> amount, category |-> category]

(* amounts and categories a command may carry; 0 and "" are refused *)
Amounts == {0, 5}

Categories == {"", "food", "rent"}

MaxExpenses == 3

valid_expense(amount, category) == amount > 0 /\ category # ""

(* keeps the snapshot that is already pending *)
post_snapshot_keep_pending(box, snap) == IF box.full THEN box ELSE snap

(* a newer post overwrites the pending snapshot *)
post_snapshot(box, snap) == snap

(* writes the ledger as it is when the write ends *)
persisted_live(snap, live) == live

(* the write stores the snapshot the task holds, not the live ledger *)
persisted(snap, live) == snap.ledger

ExpOff ==
    /\ exp_pc = "off"
    /\ ledger = <<>>
    /\ mailbox = NoSnapshot
    /\ writing = NoSnapshot
    /\ storage = <<>>
    /\ exp_err = "none"

ExpInit ==
    /\ exp_pc = "running"
    /\ ledger = <<>>
    /\ mailbox = NoSnapshot
    /\ writing = NoSnapshot
    /\ storage = <<>>
    /\ exp_err = "none"

(* add_expense: refused with InvalidInput, or appended and a save scheduled *)
add_expense(amount, category) ==
    /\ exp_pc = "running"
    /\ Len(ledger) < MaxExpenses
    /\ IF valid_expense(amount, category)
       THEN /\ ledger' = Append(ledger, Expense(Len(ledger) + 1, amount, category))
            /\ mailbox' = post_snapshot(mailbox, Snapshot(ledger'))
            /\ exp_err' = IF exp_err = "InvalidInput" THEN "none" ELSE exp_err
       ELSE /\ exp_err' = "InvalidInput"
            /\ UNCHANGED <<ledger, mailbox>>
    /\ UNCHANGED <<exp_pc, writing, storage>>
    /\ UNCHANGED nonExpVars

AddExpenseCall == \E a \in Amounts, c \in Categories : add_expense(a, c)

(* the persistence task takes the pending snapshot out of the mailbox *)
TakeSnapshot ==
    /\ exp_pc \in {"running", "exiting"}
    /\ mailbox.full
    /\ ~writing.full
    /\ writing' = mailbox
    /\ mailbox' = NoSnapshot
    /\ UNCHANGED <<exp_pc, ledger, storage, exp_err>>
    /\ UNCHANGED nonExpVars

(* the write of the snapshot ends well *)
WriteSucceeds ==
    /\ writing.full
    /\ storage' = persisted(writing, ledger)
    /\ writing' = NoSnapshot
    /\ UNCHANGED <<exp_pc, ledger, mailbox, exp_err>>
    /\ UNCHANGED nonExpVars

(* the write fails: the failure is reported, the file keeps its content,    *)
(* and the next mutation schedules the next save                            *)
WriteFails ==
    /\ writing.full
    /\ writing' = NoSnapshot
    /\ exp_err' = "SaveFailed"
    /\ UNCHANGED <<exp_pc, ledger, mailbox, storage>>
    /\ UNCHANGED nonExpVars

(* the user asks to leave: no command is taken any more *)
RequestExit ==
    /\ exp_pc = "running"
    /\ exp_pc' = "exiting"
    /\ UNCHANGED <<ledger, mailbox, writing, storage, exp_err>>
    /\ UNCHANGED nonExpVars

(* the process ends once the persistence task has nothing left to write *)
Exit ==
    /\ exp_pc = "exiting"
    /\ ~mailbox.full
    /\ ~writing.full
    /\ exp_pc' = "exited"
    /\ UNCHANGED <<ledger, mailbox, writing, storage, exp_err>>
    /\ UNCHANGED nonExpVars

-----------------------------------------------------------------------------
(* The scheduler as a system: a caller picks an input and calls *)

SchedOff ==
    /\ in_employees = <<>>
    /\ raw_preferences = NoPrefs
    /\ cfg = DefaultConfig
    /\ pc = "off"
    /\ run = 1
    /\ prev = NoOutcome
    /\ Idle

SchedInit ==
    /\ \E inp \in Inputs :
          /\ in_employees = inp.employees
          /\ raw_preferences = inp.raw_preferences
          /\ cfg = inp.cfg
    /\ pc = "call"
    /\ run = 1
    /\ prev = NoOutcome
    /\ Idle

Init == SchedInit /\ KinOff /\ StatOff /\ RideOff /\ ExpOff

Next ==
    \/ Call
    \/ GreedyStep
    \/ FallbackStep
    \/ BackfillStep
    \/ EnforceAndReturn
    \/ CallAgain

Spec == Init /\ [][Next]_vars

(* The kinship rules as a system: one goal is put and solved *)
KinSpecInit == KinInit /\ SchedOff /\ StatOff /\ RideOff /\ ExpOff

KinNext == KinSolve

KinSpec == KinSpecInit /\ [][KinNext]_vars

(* A recursive goal resolved call by call; the engine goes on as long as a *)
(* call is left                                                            *)
KinRunSpecInit == KinRunInit /\ SchedOff /\ StatOff /\ RideOff /\ ExpOff

KinRunNext ==
    \/ KinCall
    \/ KinStep
    \/ KinExhausted

KinRunSpec ==
    /\ KinRunSpecInit
    /\ [][KinRunNext]_vars
    /\ WF_vars(KinRunNext)

(* The statistics calculators as a system: both are run on one command line *)
StatSpecInit == StatInit /\ SchedOff /\ KinOff /\ RideOff /\ ExpOff

StatNext == MLMain \/ CMain

StatSpec == StatSpecInit /\ [][StatNext]_vars

(* The ride simulation as a system: rides are handed to drivers and riders *)
RideSpecInit == RideInit /\ SchedOff /\ KinOff /\ StatOff /\ ExpOff

RideNext == AddRideCall \/ RequestRideCall \/ DriverInfoCall \/ ViewRidesCall

RideSpec == RideSpecInit /\ [][RideNext]_vars

(* The expense tracker as a system: commands, the persistence task, exit.   *)
(* ExpSpec lets a save fail.  ExpLiveSpec is the tracker whose saves        *)
(* succeed and whose persistence task is scheduled fairly: whenever it can  *)
(* take a snapshot or end a write, it eventually does.                      *)
ExpSpecInit == ExpInit /\ SchedOff /\ KinOff /\ StatOff /\ RideOff

ExpNext ==
    \/ AddExpenseCall
    \/ TakeSnapshot
    \/ WriteSucceeds
    \/ WriteFails
    \/ RequestExit
    \/ Exit

ExpSpec == ExpSpecInit /\ [][ExpNext]_vars

ExpLiveNext ==
    \/ AddExpenseCall
    \/ TakeSnapshot
    \/ WriteSucceeds
    \/ RequestExit
    \/ Exit

ExpLiveSpec ==
    /\ ExpSpecInit
    /\ [][ExpLiveNext]_vars
    /\ WF_vars(TakeSnapshot)
    /\ WF_vars(WriteSucceeds)

-----------------------------------------------------------------------------
(* Properties of the scheduler *)

Occurrences(s, e) == Cardinality({i \in 1..Len(s) : s[i] = e})

RECURSIVE SumSeq(_)
SumSeq(s) == IF s = <<>> THEN 0 ELSE Head(s) + SumSeq(Tail(s))

ShiftsOnDay(e, day) ==
    SumSeq([i \in 1..Len(SHIFTS) |-> Occurrences(sched[day][SHIFTS[i]], e)])

SlotsInWeek(e) == SumSeq([i \in 1..Len(DAYS) |-> ShiftsOnDay(e, DAYS[i])])

MinWarningsFor(day, shift) ==
    {i \in 1..Len(warnings) :
        /\ warnings[i].kind = "min_staffing"
        /\ warnings[i].day = day
        /\ warnings[i].shift = shift}

(* C1: in a returned schedule every employee is in at most one shift on    *)
(* each day and in at most max_days_per_employee slots of the week.        *)
C1_OneShiftPerDayWithinWeeklyCap ==
    pc = "returned" =>
        \A e \in Range(employees) :
            /\ \A day \in DaySet : ShiftsOnDay(e, day) <= 1
            /\ SlotsInWeek(e) <= cfg.max_days_per_employee

(* a returned schedule in which the weekly cap stopped somebody while the  *)
(* backfill was still short of staff                                       *)
C1_Witness ==
    /\ pc = "returned"
    /\ cfg.max_days_per_employee < Len(DAYS)
    /\ \E e \in Range(employees) :
          /\ SlotsInWeek(e) = cfg.max_days_per_employee
          /\ \E day \in DaySet : ShiftsOnDay(e, day) = 0
    /\ warnings # <<>>

(* C2: every slot of a returned schedule holds min_per_shift employees or  *)
(* has a minimum-staffing warning carrying its final size and the minimum; *)
(* a slot that holds the minimum has no such warning.                      *)
C2_MinimumOrWarning ==
    pc = "returned" =>
        \A day \in DaySet, shift \in SHIFT_SET :
            LET size == Len(sched[day][shift]) IN
            /\ \/ size >= cfg.min_per_shift
               \/ \E i \in MinWarningsFor(day, shift) :
                     warnings[i].have = size /\ warnings[i].need = cfg.min_per_shift
            /\ size >= cfg.min_per_shift => MinWarningsFor(day, shift) = {}

(* a returned schedule with a slot the backfill brought to the minimum and *)
(* a slot it could not fill                                                *)
C2_Witness ==
    /\ pc = "returned"
    /\ cfg.min_per_shift > 0
    /\ \E day \in DaySet, shift \in SHIFT_SET :
          /\ Len(sched[day][shift]) >= cfg.min_per_shift
          /\ \E e \in Range(sched[day][shift]) : pref_at(prefs, e, day) = <<>>
    /\ \E day \in DaySet, shift \in SHIFT_SET :
          /\ Len(sched[day][shift]) < cfg.min_per_shift
          /\ MinWarningsFor(day, shift) # {}

IsFourEmployeeCase ==
    /\ in_employees = <<A, B, C, D>>
    /\ raw_preferences = NoPrefs
    /\ cfg = Config(2, 4, 5, 42)

(* C3 as stated: for employees A, B, C, D, min 2, max 4, defaults and no   *)
(* preferences, the call produces a result in which each of the 21 slots   *)
(* holds at least 2 employees or has a warning naming its day and shift.   *)
C3_AsStated ==
    (IsFourEmployeeCase /\ Finished) =>
        /\ pc = "returned"
        /\ \A day \in DaySet, shift \in SHIFT_SET :
              \/ Len(sched[day][shift]) >= 2
              \/ MinWarningsFor(day, shift) # {}

(* C3 amended: for that input the call throws Infeasible (required 42,     *)
(* supply 20, 5 more employees suggested); no slot is filled and no        *)
(* warning is produced.                                                    *)
C3_FourEmployeesInfeasible ==
    (IsFourEmployeeCase /\ pc # "call") =>
        /\ pc = "thrown"
        /\ err = [kind |-> "Infeasible", required |-> 42, supply |-> 20,
                  need_more |-> 5]
        /\ sched = empty_schedule
        /\ warnings = <<>>

C3_Witness == IsFourEmployeeCase /\ pc = "thrown" /\ run = 2

(* C4 as stated: for a non-empty cleaned list and any configuration the    *)
(* call throws Infeasible, before any assignment, exactly when             *)
(* count * max_days_per_employee < 7 * 3 * min_per_shift, and the error    *)
(* carries the required total, the supply and                              *)
(* ceil((required - supply) / max_days_per_employee).                      *)
C4_InfeasibleExactlyWhenShort ==
    (pc \notin {"call", "off"} /\ employees # <<>>) =>
        LET required == 7 * 3 * cfg.min_per_shift
            supply   == Len(employees) * cfg.max_days_per_employee
        IN  IF supply < required
            THEN /\ pc = "thrown"
                 /\ err.kind = "Infeasible"
                 /\ err.required = required
                 /\ err.supply = supply
                 /\ err.need_more * cfg.max_days_per_employee >= required - supply
                 /\ (err.need_more - 1) * cfg.max_days_per_employee < required - supply
                 /\ sched = empty_schedule
                 /\ (in_employees = <<A>> /\ cfg = DefaultConfig) =>
                        err.required = 42 /\ err.supply = 5 /\ err.need_more = 8
            ELSE pc # "thrown" /\ err = NoError

IsLabel(l) ==
    \E pre, post \in 0..Len(l) :
        /\ pre + post <= Len(l)
        /\ \A i \in 1..pre : isspace(l[i])
        /\ \A i \in (Len(l) - post + 1)..Len(l) : isspace(l[i])
        /\ \E sh \in SHIFT_SET :
              /\ Len(sh) = Len(l) - pre - post
              /\ \A i \in 1..Len(sh) : tolower(l[pre + i]) = sh[i]

LabelOf(l) == to_lower(trim(l))

RawListOf(emp, day) ==
    IF emp \in DOMAIN raw_preferences /\ day \in DOMAIN raw_preferences[emp]
    THEN LET val == raw_preferences[emp][day]
         IN  IF val.tag = "string" THEN <<val.s>> ELSE val.v
    ELSE <<>>

RecognizedInOrder(raw) ==
    LET kept == SelectSeq(raw, IsLabel)
    IN  [i \in 1..Len(kept) |-> LabelOf(kept[i])]

(* C5 as stated: for every employee and day the normalized list has at     *)
(* most 3 entries, pairwise distinct, all recognized labels; it is the     *)
(* input's recognized labels in input order; an employee or day absent     *)
(* from the input has the empty list.                                      *)
C5_NormalizedPreferences ==
    pc \in {"greedy", "fallback", "backfill", "enforce", "returned"} =>
        \A e \in Range(employees), day \in DaySet :
            LET r == pref_at(prefs, e, day) IN
            /\ Len(r) <= 3
            /\ \A i, j \in 1..Len(r) : i # j => r[i] # r[j]
            /\ Range(r) \subseteq SHIFT_SET
            /\ r = RecognizedInOrder(RawListOf(e, day))

IsTrimOf(t, s) ==
    /\ \A i \in 1..Len(t) : i \in {1, Len(t)} => ~isspace(t[i])
    /\ \E pre \in 0..Len(s) :
          /\ pre + Len(t) <= Len(s)
          /\ \A i \in 1..Len(s) :
                IF i > pre /\ i <= pre + Len(t) THEN s[i] = t[i - pre]
                ELSE isspace(s[i])

FirstSeen(t) ==
    CHOOSE i \in 1..Len(in_employees) :
        /\ IsTrimOf(t, in_employees[i])
        /\ \A j \in 1..(i - 1) : ~IsTrimOf(t, in_employees[j])

(* C7: the cleaned list is the trimmed, non-empty names of the input, each *)
(* once, in the order of first occurrence; an empty cleaned list makes the *)
(* call throw InvalidInput with nothing assigned, whatever the             *)
(* configuration; only names of the cleaned list are in the schedule.      *)
C7_CleanedEmployees ==
    /\ Finished =>
        /\ \A i \in 1..Len(employees) :
              /\ employees[i] # <<>>
              /\ \E j \in 1..Len(in_employees) : IsTrimOf(employees[i], in_employees[j])
        /\ \A j \in 1..Len(in_employees) :
              \/ IsTrimOf(<<>>, in_employees[j])
              \/ \E i \in 1..Len(employees) : IsTrimOf(employees[i], in_employees[j])
        /\ \A i, j \in 1..Len(employees) :
              i < j => employees[i] # employees[j]
                       /\ FirstSeen(employees[i]) < FirstSeen(employees[j])
        /\ employees = <<>> =>
              /\ pc = "thrown"
              /\ err = [kind |-> "InvalidInput"]
              /\ sched = empty_schedule
    /\ \A day \in DaySet, shift \in SHIFT_SET :
          Range(sched[day][shift]) \subseteq Range(employees)

(* a returned schedule holding a name that was padded and repeated in the  *)
(* input, which also had a blank name                                      *)
C7_Witness ==
    /\ pc = "returned"
    /\ \E i, j \in 1..Len(in_employees) :
          /\ i < j
          /\ in_employees[i] # in_employees[j]
          /\ \E e \in Range(employees) :
                /\ IsTrimOf(e, in_employees[i])
                /\ IsTrimOf(e, in_employees[j])
                /\ \E day \in DaySet, shift \in SHIFT_SET : e \in Range(sched[day][shift])
    /\ \E i \in 1..Len(in_employees) : IsTrimOf(<<>>, in_employees[i])

-----------------------------------------------------------------------------
(* Properties of the kinship rules *)

Answered(r, x, y, n) == kin_pc = "answered" /\ kin_query = Goal(r, x, y, n)

ParentRel == Range(parent)

RECURSIVE TransitiveClosure(_)
TransitiveClosure(R) ==
    LET R2 == R \cup {<<w[1][1], w[2][2]>> : w \in {z \in R \X R : z[1][2] = z[2][1]}}
    IN  IF R2 = R THEN R ELSE TransitiveClosure(R2)

SharedParents(x, y) ==
    {p \in People : <<p, x>> \in ParentRel /\ <<p, y>> \in ParentRel}

(* C8: over the fact base ancestor(john, eva) holds, ancestor_n(john, eva, *)
(* 1) fails, ancestor_n(john, eva, 2) holds, grandparent(john, eva) holds  *)
(* and cousin(eva, grace) holds.                                           *)
C8_ReferenceQueries ==
    /\ Answered("ancestor", "john", "eva", 0) => kin_answers # <<>>
    /\ Answered("ancestor_n", "john", "eva", 1) => kin_answers = <<>>
    /\ Answered("ancestor_n", "john", "eva", 2) => kin_answers # <<>>
    /\ Answered("grandparent", "john", "eva", 0) => kin_answers # <<>>
    /\ Answered("cousin", "eva", "grace", 0) => kin_answers # <<>>

C8_Witness ==
    /\ Answered("grandparent", "john", "eva", 0)
    /\ kin_answers = << <<"john", "eva">> >>

SiblingCounts ==
    (kin_pc = "answered" /\ kin_query.rel = "sibling") =>
        /\ \A x, y \in People :
              (matches(kin_query.x, x) /\ matches(kin_query.y, y)) =>
                  Occurrences(kin_answers, <<x, y>>) =
                      IF x # y THEN Cardinality(SharedParents(x, y)) ELSE 0
        /\ \A i \in 1..Len(kin_answers) :
              /\ matches(kin_query.x, kin_answers[i][1])
              /\ matches(kin_query.y, kin_answers[i][2])

(* C10 as stated: sibling(X, Y) has one solution per parent shared by two  *)
(* different people X and Y, and none otherwise; Eva/Frank and Bob/Diana   *)
(* each share more than one parent and so get duplicate solutions.         *)
C10_AsStated ==
    /\ SiblingCounts
    /\ Answered("sibling", "eva", "frank", 0) => Len(kin_answers) > 1
    /\ Answered("sibling", "bob", "diana", 0) => Len(kin_answers) > 1

(* C10 amended: sibling(X, Y) has one solution per parent shared by two    *)
(* different people X and Y, and none otherwise; Eva/Frank and Bob/Clara   *)
(* each share two parents and get two solutions each, while Bob and Diana  *)
(* share no parent and sibling(bob, diana) has no solution.                *)
C10_SiblingPerSharedParent ==
    /\ SiblingCounts
    /\ Answered("sibling", "eva", "frank", 0) => Len(kin_answers) = 2
    /\ Answered("sibling", "bob", "clara", 0) => Len(kin_answers) = 2
    /\ Answered("sibling", "bob", "diana", 0) => Len(kin_answers) = 0

C10_Witness ==
    /\ Answered("sibling", "bob", "clara", 0)
    /\ kin_answers = << <<"bob", "clara">>, <<"bob", "clara">> >>

-----------------------------------------------------------------------------
(* Properties of the statistics calculators *)

Ran(r) == r.kind \in {"exited", "trapped"}

Reported(r) == r.kind = "exited" /\ r.stdout.kind = "report"

MLSample == [i \in 1..Len(stat_argv) |-> int_of_string_opt(stat_argv[i]).v]

CSample == [i \in 1..Len(stat_argv) |-> parse_int_strict(stat_argv[i]).v]

MLUnparseable == {t \in Range(stat_argv) : ~int_of_string_opt(t).some}

CUnparseable == {t \in Range(stat_argv) : ~parse_int_strict(t).ok}

MostFrequent(xs) ==
    {v \in Range(xs) : \A w \in Range(xs) : Occurrences(xs, w) <= Occurrences(xs, v)}

IsModesOf(m, xs) ==
    /\ \A i \in 1..(Len(m) - 1) : m[i] < m[i + 1]
    /\ Range(m) = MostFrequent(xs)

IsMaxFrequencyOf(f, xs) ==
    /\ \E v \in Range(xs) : Occurrences(xs, v) = f
    /\ \A v \in Range(xs) : Occurrences(xs, v) <= f

(* C11: whenever a calculator prints its report for a sample, the modes it  *)
(* lists are exactly the values whose frequency is the maximum frequency,   *)
(* each once, in ascending order, and the array-based calculator prints     *)
(* that maximum frequency; 1 2 2 3 4 4 4 5 gives mode 4 with frequency 3    *)
(* and 1 2 3 4 gives all four values.                                       *)
C11_ModesAreTheMostFrequent ==
    /\ Reported(ml_result) =>
          /\ IsModesOf(ml_result.stdout.modes, MLSample)
          /\ stat_argv = DocSampleRepeats => ml_result.stdout.modes = <<4>>
          /\ stat_argv = DocSampleDistinct => ml_result.stdout.modes = <<1, 2, 3, 4>>
    /\ Reported(c_result) =>
          /\ IsModesOf(c_result.stdout.modes, CSample)
          /\ IsMaxFrequencyOf(c_result.stdout.maxfreq, CSample)
          /\ stat_argv = DocSampleRepeats =>
                c_result.stdout.modes = <<4>> /\ c_result.stdout.maxfreq = 3
          /\ stat_argv = DocSampleDistinct =>
                c_result.stdout.modes = <<1, 2, 3, 4>> /\ c_result.stdout.maxfreq = 1

C11_Witness ==
    /\ stat_argv = DocSampleRepeats
    /\ Reported(ml_result)
    /\ Reported(c_result)
    /\ c_result.stdout.modes = <<4>>
    /\ ml_result.stdout.modes = <<4>>

(* C12: for every non-empty sample of 32-bit integers the array-based       *)
(* calculator prints the same median as the functional one.                 *)
C12_SameMedian ==
    (Reported(ml_result) /\ Ran(c_result) /\ CUnparseable = {} /\ MLSample = CSample) =>
        /\ Reported(c_result)
        /\ c_result.stdout.median = ml_result.stdout.median

(* C13: an empty argument list ends a run with the usage message and a      *)
(* non-zero exit status, an argument list with an unparseable token ends it *)
(* with an error naming such a token and a non-zero exit status, in both    *)
(* cases with no line of the report printed; stats.ml exits with 1 and 2,   *)
(* the C program with EXIT_FAILURE in both cases.                           *)
C13_BadCommandLines ==
    /\ (Ran(ml_result) /\ stat_argv = <<>>) =>
          /\ ml_result.kind = "exited" /\ ml_result.exit = 1
          /\ UsageLine \in Range(ml_result.stderr)
          /\ ml_result.stdout = NoReport
    /\ (Ran(ml_result) /\ MLUnparseable # {}) =>
          /\ ml_result.kind = "exited" /\ ml_result.exit = 2
          /\ \E t \in MLUnparseable : ml_result.stderr = <<InvalidLine(t)>>
          /\ ml_result.stdout = NoReport
    /\ (Ran(c_result) /\ stat_argv = <<>>) =>
          /\ c_result.kind = "exited" /\ c_result.exit = EXIT_FAILURE
          /\ c_result.exit # 0
          /\ UsageLine \in Range(c_result.stderr)
          /\ c_result.stdout = NoReport
    /\ (Ran(c_result) /\ CUnparseable # {}) =>
          /\ c_result.kind = "exited" /\ c_result.exit = EXIT_FAILURE
          /\ c_result.exit # 0
          /\ \E t \in CUnparseable : c_result.stderr = <<InvalidLine(t)>>
          /\ c_result.stdout = NoReport

C13_Witness ==
    /\ stat_argv = <<Tok1, <<"x">>>>
    /\ ml_result.kind = "exited" /\ ml_result.exit = 2
    /\ c_result.kind = "exited" /\ c_result.exit = EXIT_FAILURE
    /\ c_result.stderr = <<InvalidLine(<<"x">>)>>

-----------------------------------------------------------------------------
(* Properties of the ride simulation *)

(* C14: the fare of a StandardRide is 3.00 + miles x 1.50, the fare of a    *)
(* PremiumRide is 5.00 + miles x 2.50 x surge with surge 1.0 when none is   *)
(* given, chosen by the ride's class; 15.2 miles standard costs 25.80,      *)
(* 8.5 miles premium at surge 1.30 costs 32.625, and a driver assigned both *)
(* earns the sum of the two fares.                                          *)
C14_Fares ==
    ride_out.kind = "driver" =>
       /\ \A i \in 1..Len(ride_out.rides) :
             LET r == ride_out.rides[i] IN
             /\ r.type = "Standard" => r.fare = 300000 + r.miles * 15000
             /\ r.type = "Premium" =>
                   r.fare = 500000 + r.miles * 250 * ride_objects[r.rideID].surgeMultiplier
             /\ r.rideID = "R1005" => r.fare = 500000 + r.miles * 25000
             /\ (r.type = "Standard" /\ r.miles = 152) => r.fare = 2580000
             /\ (r.type = "Premium" /\ r.miles = 85
                   /\ ride_objects[r.rideID].surgeMultiplier = 130) => r.fare = 3262500
       /\ ( /\ Len(ride_out.rides) = 2
            /\ {ride_out.rides[1].rideID, ride_out.rides[2].rideID} = {"R1001", "R1002"} )
          => ride_out.total = 2580000 + 3262500

C14_Witness ==
    /\ ride_out.kind = "driver"
    /\ Len(ride_out.rides) = 2
    /\ ride_out.rides[1].rideID = "R1001"
    /\ ride_out.rides[2].rideID = "R1002"
    /\ ride_out.total = 5842500

IsPrefix(s, t) == Len(s) <= Len(t) /\ SubSeq(t, 1, Len(s)) = s

(* the rides passed to one driver or rider, in call order *)
PassedTo(who) ==
    LET mine == SelectSeq(ride_log, LAMBDA c : c.who = who)
    IN  [i \in 1..Len(mine) |-> mine[i].ride]

RideIdSeq == <<"R1001", "R1002", "R1003", "R1004", "R1005">>

(* the fares of a list of rides, each ride counted as often as it occurs *)
FaresWithMultiplicity(list) ==
    SumSeq([k \in 1..Len(RideIdSeq) |->
              Occurrences(list, RideIdSeq[k]) * fare(ride_objects[RideIdSeq[k]])])

ListsChanged ==
    {d \in Drivers : assignedRides'[d] # assignedRides[d]}
    \cup {u \in Riders : requestedRides'[u] # requestedRides[u]}

(* C22: after any sequence of addRide and requestRide calls every driver's  *)
(* assigned list and every rider's requested list is exactly the sequence   *)
(* of rides passed to it, in call order and with repetitions (lists only    *)
(* grow); totalEarnings is the sum of fare() over the list, counted with    *)
(* multiplicity; a call changes the receiver's list only, and no ride's     *)
(* fields or fare, so one ride may be in several lists at once.             *)
C22_ListsAreTheCallsMade ==
    /\ [](ride_out.kind # "off" =>
            /\ \A d \in Drivers : assignedRides[d] = PassedTo(d)
            /\ \A u \in Riders : requestedRides[u] = PassedTo(u)
            /\ ride_out.kind = "driver" =>
                  LET shown == [i \in 1..Len(ride_out.rides) |->
                                  ride_out.rides[i].rideID]
                  IN  /\ IsPrefix(shown, assignedRides[ride_out.who])
                      /\ ride_out.total = FaresWithMultiplicity(shown)
                      /\ \A i \in 1..Len(shown) :
                            ride_out.rides[i].fare = fare(ride_objects[shown[i]]))
    /\ [][ /\ ride_objects' = ride_objects
           /\ \A i \in DOMAIN ride_objects :
                 fare(ride_objects'[i]) = fare(ride_objects[i])
           /\ \A d \in Drivers : IsPrefix(assignedRides[d], assignedRides'[d])
           /\ \A u \in Riders : IsPrefix(requestedRides[u], requestedRides'[u])
           /\ Cardinality(ListsChanged) <= 1
           /\ Len(ride_log') > Len(ride_log) =>
                 LET c == ride_log'[Len(ride_log')]
                 IN  /\ ListsChanged = {c.who}
                     /\ c.who \in Drivers =>
                           assignedRides'[c.who] = Append(assignedRides[c.who], c.ride)
                     /\ c.who \in Riders =>
                           requestedRides'[c.who] = Append(requestedRides[c.who], c.ride)
       ]_vars

(* one ride twice in a driver's list, and in the rider's and the other      *)
(* driver's list as well; the total printed counts it twice                 *)
C22_Witness ==
    /\ ride_out.kind = "driver"
    /\ ride_out.who = "D01"
    /\ assignedRides["D01"] = <<"R1002", "R1002">>
    /\ ride_out.total = 2 * 3262500
    /\ requestedRides["U01"] = <<"R1002">>

-----------------------------------------------------------------------------
(* Properties of the expense tracker *)

(* C15: whatever the interleaving of mutations and saves, the file never    *)
(* goes back to an earlier point of the ledger's history (it may skip       *)
(* points), and every write stores the complete snapshot the persistence    *)
(* task took, which is the ledger as it was when the save was scheduled,    *)
(* not the ledger as mutated meanwhile.                                     *)
C15_PersistedNeverGoesBack ==
    [][ /\ IsPrefix(storage, storage')
        /\ storage' # storage =>
              /\ writing.full
              /\ storage' = writing.ledger
              /\ IsPrefix(storage', ledger) ]_vars

C15_Witness ==
    /\ Len(storage) = 1
    /\ Len(ledger) = 3
    /\ writing.full
    /\ Len(writing.ledger) = 2
    /\ mailbox.full

(* C16: with saves that succeed and a persistence task that is scheduled    *)
(* fairly, the file eventually holds the final ledger and keeps holding it, *)
(* and whenever the process has exited the file holds the final ledger.     *)
C16_ConvergesToStorage ==
    /\ <>[](storage = ledger)
    /\ [](exp_pc = "exited" => storage = ledger)

C16_Witness ==
    /\ exp_pc = "exited"
    /\ Len(ledger) = 2
    /\ storage = ledger

-----------------------------------------------------------------------------
(* Properties of the scheduler's daily passes *)

Today == DAYS[di]

PrefList(e, day) == IF e \in DOMAIN prefs THEN prefs[e][day] ELSE <<>>

AtMax(sc, day, s) ==
    cfg.max_per_shift > 0 /\ Len(sc[day][s]) >= cfg.max_per_shift

UnderCap(dw, e) == dw[e] < cfg.max_days_per_employee

(* candidate c could now be given its choice of rank j (counted from 0) *)
StillPlaceable(c, j) ==
    /\ c \notin assigned_on_day[Today]
    /\ UnderCap(days_worked, c)
    /\ j < Len(PrefList(c, Today))
    /\ ~AtMax(sched, Today, PrefList(c, Today)[j + 1])

(* C17: in the greedy pass the candidates take their turns rank by rank,    *)
(* in candidate order within a rank, so no candidate whose turn at a rank   *)
(* is over could still be given that choice; the candidate whose turn it    *)
(* is, if unassigned that day, under the weekly cap and with a preference   *)
(* of that rank, is assigned to it whenever the shift has spare capacity at *)
(* that moment; and whoever is assigned at rank 1 or 2 found the shifts of  *)
(* the higher ranks at max_per_shift.                                       *)
C17_GreedyByRank ==
    [][ pc = "greedy" =>
          LET emp    == order[idx]
              ranked == PrefList(emp, Today)
              newly  == assigned_on_day'[Today] \ assigned_on_day[Today]
          IN  /\ \A k \in 1..Len(order), j \in 0..2 :
                    (j < rank \/ (j = rank /\ k < idx)) => ~StillPlaceable(order[k], j)
              /\ StillPlaceable(emp, rank) =>
                    /\ newly = {emp}
                    /\ sched'[Today][ranked[rank + 1]] =
                          Append(sched[Today][ranked[rank + 1]], emp)
              /\ newly # {} =>
                    /\ newly = {emp}
                    /\ rank < Len(ranked)
                    /\ emp \in Range(sched'[Today][ranked[rank + 1]])
                    /\ \A j \in 0..(rank - 1) : AtMax(sched, Today, ranked[j + 1])
              /\ idx < Len(order) => (rank' = rank /\ idx' = idx + 1)
              /\ (idx = Len(order) /\ rank < 2) => (rank' = rank + 1 /\ idx' = 1)
      ]_vars

C17_Witness ==
    /\ pc = "greedy"
    /\ rank >= 1
    /\ \E e \in Range(employees) :
          /\ Len(PrefList(e, Today)) >= 2
          /\ PrefList(e, Today)[1] # PrefList(e, Today)[2]
          /\ AtMax(sched, Today, PrefList(e, Today)[1])
          /\ e \in Range(sched[Today][PrefList(e, Today)[2]])

(* C18: in the fallback a candidate with a preference for the day, not yet  *)
(* assigned that day and under the weekly cap, is placed in the first shift *)
(* with spare capacity among its preferences followed by the remaining      *)
(* shifts in the order morning, afternoon, evening; so when the greedy and  *)
(* fallback steps of a day are over, every employee with a preference for   *)
(* that day and under the weekly cap is assigned that day unless all three  *)
(* shifts are at max_per_shift.                                             *)
C18_FallbackPlacesWhenRoom ==
    [][ pc = "fallback" =>
          LET emp    == order[idx]
              ranked == PrefList(emp, Today)
              tries  == ranked \o SelectSeq(<<Morning, Afternoon, Evening>>,
                                            LAMBDA s : s \notin Range(ranked))
              due    == /\ emp \notin assigned_on_day[Today]
                        /\ UnderCap(days_worked, emp)
                        /\ ranked # <<>>
              room   == {i \in 1..Len(tries) : ~AtMax(sched, Today, tries[i])}
          IN  /\ (due /\ room # {}) =>
                    \E i \in room :
                       /\ \A j \in room : i <= j
                       /\ sched'[Today][tries[i]] = Append(sched[Today][tries[i]], emp)
                       /\ emp \in assigned_on_day'[Today]
              /\ idx = Len(order) =>
                    \A e \in Range(employees) :
                       ( /\ PrefList(e, Today) # <<>>
                         /\ UnderCap(days_worked', e)
                         /\ e \notin assigned_on_day'[Today] )
                       => \A s \in SHIFT_SET : AtMax(sched', Today, s)
      ]_vars

C18_Witness ==
    /\ pc \in {"greedy", "fallback"}
    /\ \E e \in Range(employees), d \in DaySet, s \in SHIFT_SET :
          /\ PrefList(e, d) # <<>>
          /\ s \notin Range(PrefList(e, d))
          /\ e \in Range(sched[d][s])

EarlierDays == {DAYS[i] : i \in 1..(di - 1)}

NextDayOf(d) == DAYS[(CHOOSE i \in 1..Len(DAYS) : DAYS[i] = d) + 1]

CarriedFirst ==
    order = carry_over_next_day[Today]
               \o SelectSeq(employees,
                            LAMBDA e : e \notin Range(carry_over_next_day[Today]))

(* C19 as stated: every employee with a preference for a day before Sunday  *)
(* who was not placed in any shift of that day is in the carry-over queue   *)
(* of the next day; the candidate order of a day is its carry-over queue    *)
(* followed by the other employees in first-seen order, each employee       *)
(* once; nobody is carried over from Sunday.                                *)
C19_AsStated ==
    /\ carry_over_next_day[DAYS[1]] = <<>>
    /\ pc \in {"greedy", "fallback"} =>
          /\ CarriedFirst
          /\ \A e \in Range(employees) : Occurrences(order, e) = 1
          /\ \A d \in EarlierDays, e \in Range(employees) :
                (PrefList(e, d) # <<>> /\ e \notin assigned_on_day[d])
                => e \in Range(carry_over_next_day[NextDayOf(d)])

(* C19: every employee under the weekly cap with a preference for a day     *)
(* before Sunday who was not placed in any shift of that day is in the      *)
(* carry-over queue of the next day; the candidate order of a day is its    *)
(* carry-over queue followed by the other employees in first-seen order,    *)
(* each employee once; nobody is carried over from Sunday.                  *)
C19_CarryOver ==
    /\ carry_over_next_day[DAYS[1]] = <<>>
    /\ pc \in {"greedy", "fallback"} =>
          /\ CarriedFirst
          /\ \A e \in Range(employees) : Occurrences(order, e) = 1
          /\ \A d \in EarlierDays, e \in Range(employees) :
                ( /\ PrefList(e, d) # <<>>
                  /\ e \notin assigned_on_day[d]
                  /\ UnderCap(days_worked, e) )
                => e \in Range(carry_over_next_day[NextDayOf(d)])

C19_Witness ==
    /\ pc = "greedy"
    /\ di > 1
    /\ carry_over_next_day[Today] # <<>>
    /\ order[1] # employees[1]
    /\ \E e \in Range(carry_over_next_day[Today]) :
          /\ PrefList(e, DAYS[di - 1]) # <<>>
          /\ e \notin assigned_on_day[DAYS[di - 1]]
          /\ UnderCap(days_worked, e)

(* C20: an employee whose normalized preference list for a day is empty     *)
(* enters a slot of that day only in the backfill of that slot, at a moment *)
(* when the slot holds fewer than min_per_shift employees; the greedy and   *)
(* fallback steps never assign such an employee.                            *)
C20_NoPreferenceNoAssignment ==
    [][ \A d \in DaySet, s \in SHIFT_SET :
          \A i \in (Len(sched[d][s]) + 1)..Len(sched'[d][s]) :
             PrefList(sched'[d][s][i], d) = <<>> =>
                /\ pc = "backfill"
                /\ d = DAYS[di]
                /\ s = SHIFTS[bs]
                /\ i <= cfg.min_per_shift
      ]_vars

C20_Witness ==
    /\ pc = "returned"
    /\ \E e \in Range(employees), d \in DaySet, s \in SHIFT_SET :
          /\ PrefList(e, d) = <<>>
          /\ e \in Range(sched[d][s])
    /\ \E e \in Range(employees), d \in DaySet : PrefList(e, d) # <<>>

-----------------------------------------------------------------------------
(* Properties of the backfill and of the enforcement pass *)

(* somebody is still unassigned on the day and under the weekly cap *)
PoolLeft(aod, dw, day) ==
    \E e \in Range(employees) : e \notin aod[day] /\ UnderCap(dw, e)

(* C21: whenever the backfill emits a minimum-staffing warning for a (day,  *)
(* shift), at that moment either the shift holds max_per_shift employees    *)
(* (max_per_shift > 0) or no employee is both unassigned on that day and    *)
(* under the weekly cap.                                                    *)
C21_BackfillStopsForAReason ==
    [][ (pc = "backfill" /\ Len(warnings') > Len(warnings)) =>
          LET w == warnings'[Len(warnings')]
          IN  /\ w.kind = "min_staffing"
              /\ w.day = Today
              /\ w.shift = SHIFTS[bs]
              /\ w.have = Len(sched'[Today][SHIFTS[bs]])
              /\ \/ /\ cfg.max_per_shift > 0
                    /\ Len(sched'[Today][SHIFTS[bs]]) = cfg.max_per_shift
                 \/ ~PoolLeft(assigned_on_day', days_worked', Today)
      ]_vars

(* a warning for a shift that still has room: the candidates ran out *)
C21_Witness ==
    /\ pc = "enforce"
    /\ cfg.max_per_shift > 0
    /\ \E d \in DaySet, s \in SHIFT_SET :
          /\ MinWarningsFor(d, s) # {}
          /\ Len(sched[d][s]) < cfg.max_per_shift
          /\ ~PoolLeft(assigned_on_day, days_worked, d)

(* C23: when max_per_shift > 0, no (day, shift) slot ever holds more than   *)
(* max_per_shift employees during schedule_employees; so the enforcement    *)
(* pass pops and relocates nobody, leaves the schedule as it found it, and  *)
(* no note about a failed relocation is ever emitted.                       *)
C23_NeverAboveMax ==
    /\ [](cfg.max_per_shift > 0 =>
            /\ \A d \in DaySet, s \in SHIFT_SET :
                  Len(sched[d][s]) <= cfg.max_per_shift
            /\ pops = 0
            /\ \A i \in 1..Len(warnings) : warnings[i].kind # "not_relocated")
    /\ [][ (cfg.max_per_shift > 0 /\ pc = "enforce") =>
             /\ sched' = sched
             /\ assigned_on_day' = assigned_on_day
             /\ days_worked' = days_worked
             /\ warnings' = warnings
             /\ pops' = pops
       ]_vars

(* a returned schedule with a full shift that somebody had asked for first  *)
(* and did not get                                                          *)
C23_Witness ==
    /\ pc = "returned"
    /\ cfg.max_per_shift > 0
    /\ \E d \in DaySet, s \in SHIFT_SET, e \in Range(employees) :
          /\ Len(sched[d][s]) = cfg.max_per_shift
          /\ PrefList(e, d) # <<>>
          /\ PrefList(e, d)[1] = s
          /\ e \notin Range(sched[d][s])

-----------------------------------------------------------------------------
(* Properties of the recursive kinship rules *)

(* the pairs joined by a chain of exactly n parent links *)
RECURSIVE LinkedBy(_)
LinkedBy(n) ==
    IF n = 1 THEN ParentRel
    ELSE {<<w[1][1], w[2][2]>> :
             w \in {z \in ParentRel \X LinkedBy(n - 1) : z[1][2] = z[2][1]}}

(* the pairs of a relation that a goal with arguments x and y asks for *)
AskedOf(R, x, y) == {p \in R : matches(x, p[1]) /\ matches(y, p[2])}

(* C24: over the fact base ancestor(A, D) holds if and only if              *)
(* ancestor_n(A, D, N) holds for some N >= 1; grandparent(GP, GC) holds if  *)
(* and only if some person M has parent(GP, M) and parent(M, GC); and       *)
(* ancestor_n(A, D, N) holds for no pair when N < 1.                        *)
C24_AncestorByGenerations ==
    kin_pc = "answered" =>
       LET x == kin_query.x
           y == kin_query.y
           n == kin_query.n
       IN  /\ kin_query.rel = "ancestor" =>
                 Range(kin_answers) =
                    UNION {Range(ancestor_n_sols(x, y, k)) : k \in 1..MaxGenerations}
           /\ kin_query.rel = "ancestor_n" =>
                 /\ n < 1 => kin_answers = <<>>
                 /\ n >= 1 => Range(kin_answers) = AskedOf(LinkedBy(n), x, y)
                 /\ Range(kin_answers) \subseteq Range(ancestor_sols(x, y))
           /\ kin_query.rel = "grandparent" =>
                 Range(kin_answers) =
                    AskedOf({p \in People \X People :
                                \E mid \in People : /\ <<p[1], mid>> \in ParentRel
                                                    /\ <<mid, p[2]>> \in ParentRel},
                            x, y)

(* ancestor(john, D) has the children, grandchildren and the great-         *)
(* grandchild of john, which ancestor_n gives for N = 1, 2 and 3            *)
C24_Witness ==
    /\ Answered("ancestor", "john", Var, 0)
    /\ Range(kin_answers) =
          {<<"john", d>> : d \in {"bob", "clara", "eva", "frank", "grace", "ian"}}
    /\ ancestor_n_sols("john", Var, 3) = << <<"john", "ian">> >>

(* a chain that comes back to a person it has been at *)
Revisits(chain) ==
    \E i, j \in 1..Len(chain) : i < j /\ chain[i] = chain[j]

(* C25: the parent relation of the fact base is acyclic, nobody is their    *)
(* own ancestor; so every ancestor, descendant and ancestor_n goal is       *)
(* resolved along finitely many parent chains, none of which comes back to  *)
(* a person, and it ends, all its solutions enumerated.                     *)
C25_RecursiveGoalsTerminate ==
    /\ [](/\ \A p \in People : <<p, p>> \notin TransitiveClosure(ParentRel)
          /\ \A i \in 1..Len(kin_stack) :
                /\ ~Revisits(kin_stack[i].chain)
                /\ Len(kin_stack[i].chain) <= Cardinality(People)
                /\ Len(kin_stack[i].chain) - 1 < MaxLinks
          /\ kin_pc = "answered" => kin_answers = solve(kin_query))
    /\ <>(kin_pc = "answered")

(* ancestor(john, D) has ended with its six solutions, the last call made   *)
(* on ian at the end of the longest chain                                   *)
C25_Witness ==
    /\ Answered("ancestor", "john", Var, 0)
    /\ kin_stack = <<>>
    /\ Len(kin_answers) = 6
    /\ kin_answers[5] = <<"john", "ian">>

====
